---- MODULE Spec2Model ----
(***************************************************************************)
(* A model of the spatial index of The-Game: SpatialHash and               *)
(* RenderOptimizer (src/game/utils/spatial_hash.py) and the part of        *)
(* GameState (src/game/states/game_state.py) and EnemySpawner              *)
(* (src/game/entities/enemy.py) that creates, moves and drops enemies;     *)
(* and of its world generator, WorldGenerator                              *)
(* (src/game/world/world_generator.py), with the item pickup of GameState; *)
(* and of the player (src/game/entities/player.py, entity.py): inventory,  *)
(* levelling, attack and collision; of the engine's change of state        *)
(* (src/game/core/game_engine.py), of the buff threads of GameState and of *)
(* the quest system (src/game/quests/quest_system.py).                     *)
(*                                                                         *)
(* Coordinates are integers.  Python's x // cell_size is floor division,   *)
(* which is what \div is for a positive divisor, negative x included.      *)
(***************************************************************************)
EXTENDS Integers, FiniteSets, Sequences, TLC

VARIABLES
    cell_size,          \* SpatialHash.cell_size
    grid,               \* SpatialHash.grid: a dict, cell key -> set of entities
    pos,                \* entity.x, entity.y of every entity object
    reported,           \* caller's record: the position last passed to the grid
    proto,              \* history: has the caller kept the grid's contract?
    readds,             \* history: add_entity calls for an entity already in the grid
    stale_moves,        \* history: position changes the grid was not told about
    last,               \* the operation that ran last, with its arguments
    qres,               \* the last query and the set it returned
    enemies,            \* GameState.enemies: a list of enemy objects
    alive,              \* entity.alive of every enemy object
    created,            \* how many enemy objects have been constructed
    visible_entities,   \* RenderOptimizer.visible_entities
    last_camera_pos,    \* RenderOptimizer.last_camera_pos
    generators,         \* the WorldGenerator objects constructed so far
    items,              \* GameState.items: the items lying in the world
    tres,               \* the last call on the world and what it returned
    player,             \* the fields of the Player object
    target,             \* the fields of an Enemy object
    current_state,      \* GameEngine.current_state
    reset_threads,      \* the running reset_defense / reset_attack threads
    quests,             \* the fields of the Quest objects, by quest_id
    last_quest_level    \* GameState._last_quest_level

vars == <<cell_size, grid, pos, reported, proto, readds, stale_moves, last, qres,
          enemies, alive, created, visible_entities, last_camera_pos,
          generators, items, tres,
          player, target, current_state, reset_threads, quests, last_quest_level>>

\* The caller's records and histories of the interface specifications, which
\* the game does not keep.
callerVars == <<reported, proto, readds, stale_moves, qres>>

\* The game's state, which the interface specifications leave alone.
gameVars == <<enemies, alive, created, visible_entities, last_camera_pos>>

\* The generated world and the items taken from it, which the spatial index
\* does not read.
worldVars == <<generators, items, tres>>

----------------------------------------------------------------------------
(* Bounds of the model. *)

\* The entity objects (the names are those of the spec's example scenario).
Entities == {"A", "B", "C"}

\* The positions entities take.  (10,10) and (10,15) share a cell for
\* cell_size 64 and not for cell_size 5; (-1,-1) has negative cell indices;
\* (100,100) lies on a cell boundary for cell_size 5.
Points == { <<10, 10>>, <<10, 15>>, <<100, 100>>, <<200, 200>>, <<-1, -1>> }

\* The entities and the positions the arbitrary caller of SpecHash passes
\* to the grid.
HashEntities == {"A", "B"}
HashPoints == Points \ { <<200, 200>> }

\* The cell sizes a SpatialHash is built with (64 is the default).
CellSizes == {5, 64}

\* How many times a caller may call add_entity for an entity that is
\* already in the grid, while it otherwise keeps the contract.
MaxReAdds == 1

\* How many position changes may go unreported to the grid.
MaxStale == 1

NoPos == <<>>
NoQuery == <<>>

----------------------------------------------------------------------------
(* SpatialHash *)

\* Python's a // b on integers: the floor of the quotient, for a negative
\* divisor as well (b is not 0).
floordiv(a, b) == IF b > 0 THEN a \div b ELSE (-a) \div (-b)

\* SpatialHash._get_cell_key
get_cell_key(cs, p) == <<floordiv(p[1], cs), floordiv(p[2], cs)>>

\* add_entity that replaces the cell's set instead of adding to it.
add_entity_overwrite(g, cs, e, p) ==
    LET k == get_cell_key(cs, p) IN
    [c \in DOMAIN g \cup {k} |-> IF c = k THEN {e} ELSE g[c]]

\* SpatialHash.add_entity
add_entity(g, cs, e, p) ==
    LET k  == get_cell_key(cs, p)
        g1 == IF k \notin DOMAIN g
              THEN [c \in DOMAIN g \cup {k} |-> IF c = k THEN {} ELSE g[c]]
              ELSE g
    IN  [g1 EXCEPT ![k] = @ \cup {e}]

\* remove_entity without the deletion of a cell that became empty.
remove_entity_keep_cell(g, cs, e, p) ==
    LET k == get_cell_key(cs, p) IN
    IF k \in DOMAIN g THEN [g EXCEPT ![k] = @ \ {e}] ELSE g

\* SpatialHash.remove_entity
remove_entity(g, cs, e, p) ==
    LET k == get_cell_key(cs, p) IN
    IF k \in DOMAIN g
    THEN LET g1 == [g EXCEPT ![k] = @ \ {e}] IN
         IF g1[k] = {}
         THEN [c \in DOMAIN g1 \ {k} |-> g1[c]]
         ELSE g1
    ELSE g

\* update_entity_position without the comparison of the two cells: it
\* always removes and adds.
update_entity_position_always(g, cs, e, old, new) ==
    add_entity(remove_entity(g, cs, e, old), cs, e, new)

\* update_entity_position that forgets to remove the entity from its old cell.
update_entity_position_no_remove(g, cs, e, old, new) ==
    IF get_cell_key(cs, old) # get_cell_key(cs, new)
    THEN add_entity(g, cs, e, new)
    ELSE g

\* SpatialHash.update_entity_position
update_entity_position(g, cs, e, old, new) ==
    IF get_cell_key(cs, old) # get_cell_key(cs, new)
    THEN add_entity(remove_entity(g, cs, e, old), cs, e, new)
    ELSE g

\* The members of cell k: the empty set for a key the dict does not hold.
Members(g, k) == IF k \in DOMAIN g THEN g[k] ELSE {}

\* The cells entity e is a member of.
CellsOf(g, e) == {k \in DOMAIN g : e \in g[k]}

\* The entities that are in some cell.
InGrid(g) == UNION {g[k] : k \in DOMAIN g}

EmptyGrid == [k \in {} |-> {}]

\* The cell keys the two nested loops range(min, max + 1) visit, among the
\* keys the dict holds (the loop body skips every other key).
CellRange(g, lox, hix, loy, hiy) ==
    {k \in DOMAIN g : lox <= k[1] /\ k[1] <= hix /\ loy <= k[2] /\ k[2] <= hiy}

\* The same with range(min, max): the last row and column are left out.
CellRangeExclusive(g, lox, hix, loy, hiy) ==
    {k \in DOMAIN g : lox <= k[1] /\ k[1] < hix /\ loy <= k[2] /\ k[2] < hiy}

\* The members of the visited cells.
Candidates(g, cells) == UNION {g[k] : k \in cells}

\* math.sqrt(dx * dx + dy * dy) <= radius.  For integer dx, dy and an
\* integer radius >= 0 the rounded square root compares with the radius as
\* the squares do; a negative radius is below every square root.
WithinRadius(p, x, y, radius) ==
    /\ radius >= 0
    /\ (p[1] - x) * (p[1] - x) + (p[2] - y) * (p[2] - y) <= radius * radius

\* entity.x >= x and entity.x <= x + width and the same for y
WithinRect(p, x, y, width, height) ==
    /\ p[1] >= x /\ p[1] <= x + width
    /\ p[2] >= y /\ p[2] <= y + height

\* get_entities_in_radius with range(min, max) in place of range(min, max + 1).
get_entities_in_radius_short_range(g, cs, ps, x, y, radius) ==
    LET cells == CellRangeExclusive(g, (x - radius) \div cs, (x + radius) \div cs,
                                       (y - radius) \div cs, (y + radius) \div cs)
    IN  {e \in Candidates(g, cells) : WithinRadius(ps[e], x, y, radius)}

\* get_entities_in_radius without the distance test on the bucket members.
get_entities_in_radius_no_filter(g, cs, ps, x, y, radius) ==
    Candidates(g, CellRange(g, (x - radius) \div cs, (x + radius) \div cs,
                               (y - radius) \div cs, (y + radius) \div cs))

\* SpatialHash.get_entities_in_radius; ps gives entity.x, entity.y as they
\* are when the query runs.
get_entities_in_radius(g, cs, ps, x, y, radius) ==
    LET cells == CellRange(g, (x - radius) \div cs, (x + radius) \div cs,
                              (y - radius) \div cs, (y + radius) \div cs)
    IN  {e \in Candidates(g, cells) : WithinRadius(ps[e], x, y, radius)}

\* get_entities_in_rect with strict upper bounds (entity.x < x + width).
get_entities_in_rect_strict(g, cs, ps, x, y, width, height) ==
    LET cells == CellRange(g, x \div cs, (x + width) \div cs,
                              y \div cs, (y + height) \div cs)
    IN  {e \in Candidates(g, cells) :
            /\ ps[e][1] >= x /\ ps[e][1] < x + width
            /\ ps[e][2] >= y /\ ps[e][2] < y + height}

\* SpatialHash.get_entities_in_rect
get_entities_in_rect(g, cs, ps, x, y, width, height) ==
    LET cells == CellRange(g, x \div cs, (x + width) \div cs,
                              y \div cs, (y + height) \div cs)
    IN  {e \in Candidates(g, cells) : WithinRect(ps[e], x, y, width, height)}

\* SpatialHash.get_visible_entities
get_visible_entities(g, cs, ps, camera_x, camera_y, screen_width, screen_height) ==
    get_entities_in_rect(g, cs, ps, camera_x, camera_y, screen_width, screen_height)

----------------------------------------------------------------------------
(* The SpatialHash interface under an arbitrary caller.                     *)
(*                                                                          *)
(* The grid keeps no record of where an entity is: the caller does.         *)
(* reported[e] is the position the caller last passed for e (NoPos: not in  *)
(* the grid), proto says whether every remove_entity and                    *)
(* update_entity_position so far was given that position as the old one,    *)
(* and readds counts the add_entity calls for an entity already present.    *)
(* Once the contract is broken nothing is recorded any more.                *)

NoneReported == [e \in Entities |-> NoPos]

\* No game is running: the interface is used on its own.
NoGame ==
    /\ enemies = <<>>
    /\ alive = [e \in {} |-> TRUE]
    /\ created = 0
    /\ visible_entities = {}
    /\ last_camera_pos = <<0, 0>>

\* The player, the enemy it fights, the engine's state, the buff threads
\* and the quests.
rpgVars == <<player, target, current_state, reset_threads, quests, last_quest_level>>

\* No player has been constructed and no engine is running.
NoRpg ==
    /\ player = <<>>
    /\ target = <<>>
    /\ current_state = "menu"
    /\ reset_threads = {}
    /\ quests = <<>>
    /\ last_quest_level = 0

\* No world has been generated.
NoWorld ==
    /\ generators = <<>>
    /\ items = <<>>
    /\ tres = NoQuery

InitHash ==
    /\ NoRpg
    /\ cell_size \in CellSizes
    /\ grid = EmptyGrid
    /\ pos = [e \in Entities |-> <<10, 10>>]
    /\ reported = NoneReported
    /\ proto = "kept"
    /\ readds = 0
    /\ stale_moves = 0
    /\ last = <<"init">>
    /\ qres = NoQuery
    /\ NoGame
    /\ NoWorld

Broken ==
    /\ proto' = "broken"
    /\ reported' = NoneReported
    /\ readds' = 0

\* grid.add_entity(e, x, y)
AddEntity(e, p) ==
    /\ grid' = add_entity(grid, cell_size, e, p)
    /\ IF proto = "kept"
       THEN /\ reported[e] # NoPos => readds < MaxReAdds
            /\ reported' = [reported EXCEPT ![e] = p]
            /\ readds' = IF reported[e] # NoPos THEN readds + 1 ELSE readds
            /\ proto' = proto
       ELSE UNCHANGED <<reported, readds, proto>>
    /\ last' = <<"add_entity">>
    /\ UNCHANGED <<cell_size, pos, stale_moves, qres>>
    /\ UNCHANGED gameVars
    /\ UNCHANGED worldVars /\ UNCHANGED rpgVars

\* grid.remove_entity(e, x, y)
RemoveEntity(e, p) ==
    /\ grid' = remove_entity(grid, cell_size, e, p)
    /\ IF proto = "kept" /\ reported[e] = p
       THEN /\ reported' = [reported EXCEPT ![e] = NoPos]
            /\ UNCHANGED <<readds, proto>>
       ELSE Broken
    /\ last' = <<"remove_entity",
                 get_cell_key(cell_size, p) \in DOMAIN grid \ DOMAIN grid'>>
    /\ UNCHANGED <<cell_size, pos, stale_moves, qres>>
    /\ UNCHANGED gameVars
    /\ UNCHANGED worldVars /\ UNCHANGED rpgVars

\* grid.update_entity_position(e, old_x, old_y, new_x, new_y)
UpdateEntityPosition(e, old, new) ==
    /\ grid' = update_entity_position(grid, cell_size, e, old, new)
    /\ IF proto = "kept" /\ reported[e] = old
       THEN /\ reported' = [reported EXCEPT ![e] = new]
            /\ UNCHANGED <<readds, proto>>
       ELSE Broken
    /\ last' = <<"update_entity_position",
                 get_cell_key(cell_size, old) # get_cell_key(cell_size, new)>>
    /\ UNCHANGED <<cell_size, pos, stale_moves, qres>>
    /\ UNCHANGED gameVars
    /\ UNCHANGED worldVars /\ UNCHANGED rpgVars

\* SpatialHash.clear
clear == EmptyGrid

\* grid.clear(): nothing is in the grid any more, the history starts again.
Clear ==
    /\ grid' = clear
    /\ reported' = NoneReported
    /\ proto' = "kept"
    /\ readds' = 0
    /\ last' = <<"clear">>
    /\ UNCHANGED <<cell_size, pos, stale_moves, qres>>
    /\ UNCHANGED gameVars
    /\ UNCHANGED worldVars /\ UNCHANGED rpgVars

NextHash ==
    \/ \E e \in HashEntities, p \in HashPoints : AddEntity(e, p)
    \/ \E e \in HashEntities, p \in HashPoints : RemoveEntity(e, p)
    \/ \E e \in HashEntities, old \in HashPoints, new \in HashPoints :
          UpdateEntityPosition(e, old, new)
    \/ Clear

SpecHash == InitHash /\ [][NextHash]_vars

----------------------------------------------------------------------------
(* Claims about the SpatialHash interface, checked under SpecHash.          *)

\* The cell the grid holds e in when it follows the caller's reports.
InReportedCell(e) ==
    CellsOf(grid, e) = { get_cell_key(cell_size, reported[e]) }

\* C1 as stated: after any sequence of add_entity, update_entity_position
\* and remove_entity calls that were given the previously reported position
\* as the old one, every entity added and not removed is a member of exactly
\* one cell, the cell of the position last reported.
C1_OneCellAsStated ==
    proto = "kept" =>
        \A e \in Entities : reported[e] # NoPos => InReportedCell(e)

\* C1 amended: the same, for the sequences in which, besides, add_entity is
\* called only for an entity that is not in the grid at that time.
C1_OneCellOfLastReport ==
    (proto = "kept" /\ readds = 0) =>
        \A e \in Entities : reported[e] # NoPos => InReportedCell(e)

\* C1 witness: two entities share a cell while the contract is kept, right
\* after an update_entity_position that changed cells.
C1_Witness ==
    /\ proto = "kept" /\ readds = 0
    /\ last = <<"update_entity_position", TRUE>>
    /\ \E e, f \in HashEntities :
          /\ e # f
          /\ reported[e] # NoPos /\ reported[f] # NoPos
          /\ get_cell_key(cell_size, reported[e]) = get_cell_key(cell_size, reported[f])

\* C3: update_entity_position with an old and a new position that map to
\* the same cell key leaves the grid as it was, keys and member sets.
C3_SameCellUpdateKeepsGrid ==
    [][ \A e \in HashEntities, old \in HashPoints, new \in HashPoints :
          ( /\ UpdateEntityPosition(e, old, new)
            /\ get_cell_key(cell_size, old) = get_cell_key(cell_size, new) )
          => grid' = grid ]_vars

\* C3 witness: a same-cell update between two different positions has run
\* on a grid that holds entities.
C3_Witness ==
    /\ last = <<"update_entity_position", FALSE>>
    /\ grid # EmptyGrid
    /\ \E old \in HashPoints, new \in HashPoints :
          old # new /\ get_cell_key(cell_size, old) = get_cell_key(cell_size, new)

\* What a move of e from cell ko to another cell kn may change, from grid g
\* to grid h: e leaves ko and joins kn, and nothing else.
OnlyMoved(g, h, e, ko, kn) ==
    /\ \A k \in (DOMAIN g \cup DOMAIN h) \ {ko, kn} :
          k \in DOMAIN g /\ k \in DOMAIN h /\ h[k] = g[k]
    /\ e \notin Members(h, ko)
    /\ e \in Members(h, kn)
    /\ \A f \in Entities \ {e} : \A k \in {ko, kn} :
          f \in Members(h, k) <=> f \in Members(g, k)

\* C4: update_entity_position between two different cells changes only the
\* old and the new cell: the entity leaves the old one and joins the new
\* one; every other cell and every other entity's membership stay.
C4_CrossCellUpdateFrame ==
    [][ \A e \in HashEntities, old \in HashPoints, new \in HashPoints :
          ( /\ UpdateEntityPosition(e, old, new)
            /\ get_cell_key(cell_size, old) # get_cell_key(cell_size, new) )
          => OnlyMoved(grid, grid', e, get_cell_key(cell_size, old),
                       get_cell_key(cell_size, new)) ]_vars

\* C4 witness: a cross-cell update has run and the grid holds a third cell
\* besides, with another entity in it.
C4_Witness ==
    /\ last = <<"update_entity_position", TRUE>>
    /\ proto = "kept"
    /\ Cardinality(DOMAIN grid) >= 2
    /\ Cardinality(InGrid(grid)) >= 2

\* C11: after any sequence of add_entity, remove_entity,
\* update_entity_position and clear calls, every key the grid dictionary
\* holds maps to a non-empty set: the dictionary has no empty cell.
C11_NoEmptyCell == \A k \in DOMAIN grid : grid[k] # {}

\* C11 witness: a remove_entity call has just taken the last member out of a
\* cell and deleted the cell, while another cell is still occupied.
C11_Witness ==
    /\ last = <<"remove_entity", TRUE>>
    /\ grid # EmptyGrid

----------------------------------------------------------------------------
(* Queries against a grid whose caller keeps it up to date, or not.         *)
(*                                                                          *)
(* The caller inserts an entity at its position, passes the recorded old    *)
(* position whenever it relocates or removes one, and may also let an       *)
(* entity move without telling the grid (at most MaxStale times).  A query  *)
(* returns to its caller before anything else happens.                      *)

\* The start of the spec's example scenario.
ExampleStart == [e \in Entities |->
    CASE e = "A" -> <<10, 10>> [] e = "B" -> <<100, 100>> [] OTHER -> <<10, 15>>]

\* The queries asked: centre or corner, and radius or extent.
Centres == { <<12, 12>>, <<10, 10>>, <<100, 100>>, <<-1, -1>> }
Radii == {0, 5, 10, 1000}
Corners == { <<10, 10>>, <<0, 0>>, <<-1, -1>>, <<11, 11>> }
Extents == { <<0, 0>>, <<0, 5>>, <<90, 90>>, <<1200, 800>> }

InitQuery ==
    /\ NoRpg
    /\ cell_size \in CellSizes
    /\ grid = EmptyGrid
    /\ pos = ExampleStart
    /\ reported = NoneReported
    /\ proto = "kept"
    /\ readds = 0
    /\ stale_moves = 0
    /\ last = <<"init">>
    /\ qres = NoQuery
    /\ NoGame
    /\ NoWorld

\* The entities the caller has inserted and not removed.
Inserted == {e \in Entities : reported[e] # NoPos}

\* RenderOptimizer.add_entity: the entity goes in at its own x, y.
Insert(e) ==
    /\ qres = NoQuery
    /\ e \notin Inserted
    /\ grid' = add_entity(grid, cell_size, e, pos[e])
    /\ reported' = [reported EXCEPT ![e] = pos[e]]
    /\ UNCHANGED <<cell_size, pos, proto, readds, stale_moves, last, qres>>
    /\ UNCHANGED gameVars
    /\ UNCHANGED worldVars /\ UNCHANGED rpgVars

\* The entity moves (Entity.move) and the caller relocates it, passing the
\* position it reported before.
MoveTold(e, p) ==
    /\ qres = NoQuery
    /\ e \in Inserted
    /\ p # pos[e]
    /\ pos' = [pos EXCEPT ![e] = p]
    /\ grid' = update_entity_position(grid, cell_size, e, reported[e], p)
    /\ reported' = [reported EXCEPT ![e] = p]
    /\ UNCHANGED <<cell_size, proto, readds, stale_moves, last, qres>>
    /\ UNCHANGED gameVars
    /\ UNCHANGED worldVars /\ UNCHANGED rpgVars

\* The entity moves (Entity.move) and the grid is not told.
MoveUntold(e, p) ==
    /\ qres = NoQuery
    /\ e \in Inserted
    /\ p # pos[e]
    /\ stale_moves < MaxStale
    /\ pos' = [pos EXCEPT ![e] = p]
    /\ stale_moves' = stale_moves + 1
    /\ UNCHANGED <<cell_size, grid, reported, proto, readds, last, qres>>
    /\ UNCHANGED gameVars
    /\ UNCHANGED worldVars /\ UNCHANGED rpgVars

\* The caller removes the entity, passing the position it reported before.
\* The entity leaves the world: it is put back where it started (the grid
\* reads the position of no entity it does not hold), and may come back.
Remove(e) ==
    /\ qres = NoQuery
    /\ e \in Inserted
    /\ grid' = remove_entity(grid, cell_size, e, reported[e])
    /\ reported' = [reported EXCEPT ![e] = NoPos]
    /\ pos' = [pos EXCEPT ![e] = ExampleStart[e]]
    /\ UNCHANGED <<cell_size, proto, readds, stale_moves, last, qres>>
    /\ UNCHANGED gameVars
    /\ UNCHANGED worldVars /\ UNCHANGED rpgVars

\* grid.get_entities_in_radius(x, y, radius)
QueryRadius(c, r) ==
    /\ qres = NoQuery
    /\ qres' = [kind |-> "radius", x |-> c[1], y |-> c[2], radius |-> r,
                out |-> get_entities_in_radius(grid, cell_size, pos, c[1], c[2], r)]
    /\ UNCHANGED <<cell_size, grid, pos, reported, proto, readds, stale_moves, last>>
    /\ UNCHANGED gameVars
    /\ UNCHANGED worldVars /\ UNCHANGED rpgVars

\* grid.get_entities_in_rect(x, y, width, height)
QueryRect(c, wh) ==
    /\ qres = NoQuery
    /\ qres' = [kind |-> "rect", x |-> c[1], y |-> c[2],
                width |-> wh[1], height |-> wh[2],
                out |-> get_entities_in_rect(grid, cell_size, pos, c[1], c[2],
                                             wh[1], wh[2])]
    /\ UNCHANGED <<cell_size, grid, pos, reported, proto, readds, stale_moves, last>>
    /\ UNCHANGED gameVars
    /\ UNCHANGED worldVars /\ UNCHANGED rpgVars

\* The query's caller has taken the result.
Return ==
    /\ qres # NoQuery
    /\ qres' = NoQuery
    /\ UNCHANGED <<cell_size, grid, pos, reported, proto, readds, stale_moves, last>>
    /\ UNCHANGED gameVars
    /\ UNCHANGED worldVars /\ UNCHANGED rpgVars

NextQuery ==
    \/ \E e \in Entities : Insert(e)
    \/ \E e \in Entities, p \in Points : MoveTold(e, p)
    \/ \E e \in Entities, p \in Points : MoveUntold(e, p)
    \/ \E e \in Entities : Remove(e)
    \/ \E c \in Centres, r \in Radii : QueryRadius(c, r)
    \/ \E c \in Corners, wh \in Extents : QueryRect(c, wh)
    \/ Return

SpecQuery == InitQuery /\ [][NextQuery]_vars

\* Every inserted entity is where the grid was last told it is.
InSync == \A e \in Inserted : reported[e] = pos[e]

\* The brute-force scans over all inserted entities.
ScanRadius(x, y, radius) ==
    {e \in Inserted : WithinRadius(pos[e], x, y, radius)}
ScanRect(x, y, width, height) ==
    {e \in Inserted : WithinRect(pos[e], x, y, width, height)}

IsRadius == qres # NoQuery /\ qres.kind = "radius"
IsRect == qres # NoQuery /\ qres.kind = "rect"

\* The spec's example: cell_size 64, A, B, C inserted where they stand, and
\* the query (12, 12, 10).
ExampleQuery ==
    /\ IsRadius /\ qres.x = 12 /\ qres.y = 12 /\ qres.radius = 10
    /\ cell_size = 64
    /\ Inserted = Entities /\ InSync
    /\ pos["B"] = <<100, 100>> /\ pos["C"] = <<10, 15>>

\* C2: with every entity inserted at its position and relocated on every
\* move, get_entities_in_radius returns exactly the entities a brute-force
\* scan finds within the radius, for each cell size and radius (0 and
\* larger than the world included); in the example it returns {A, C}, and
\* {C} once A is relocated to (200, 200).
C2_RadiusEqualsScan ==
    /\ (IsRadius /\ InSync) => qres.out = ScanRadius(qres.x, qres.y, qres.radius)
    /\ (ExampleQuery /\ pos["A"] = <<10, 10>>) => qres.out = {"A", "C"}
    /\ (ExampleQuery /\ pos["A"] = <<200, 200>>) => qres.out = {"C"}

\* C2 witness: the example's second query, after A was relocated.
C2_Witness ==
    /\ ExampleQuery /\ pos["A"] = <<200, 200>>
    /\ qres.out = {"C"}

\* C5: whatever moves the grid was not told about, a query returns no
\* entity whose position lies outside the circle or rectangle asked for;
\* an entity missing from a result it belongs to is one that moved untold.
C5_StaleOnlyMisses ==
    /\ IsRadius =>
          /\ qres.out \subseteq ScanRadius(qres.x, qres.y, qres.radius)
          /\ \A e \in ScanRadius(qres.x, qres.y, qres.radius) \ qres.out :
                reported[e] # pos[e]
    /\ IsRect =>
          /\ qres.out \subseteq ScanRect(qres.x, qres.y, qres.width, qres.height)
          /\ \A e \in ScanRect(qres.x, qres.y, qres.width, qres.height) \ qres.out :
                reported[e] # pos[e]

\* C5 witness: an entity moved untold into the circle asked for and the
\* query missed it, and returned the others in the circle.
C5_Witness ==
    /\ IsRadius
    /\ qres.out # {}
    /\ \E e \in Inserted :
          /\ reported[e] # pos[e]
          /\ WithinRadius(pos[e], qres.x, qres.y, qres.radius)
          /\ e \notin qres.out

\* C6: with every entity inserted at its position, get_entities_in_rect
\* with width, height >= 0 returns exactly the entities with
\* x <= e.x <= x + width and y <= e.y <= y + height, as a brute-force scan.
C6_RectEqualsScan ==
    (IsRect /\ InSync /\ qres.width >= 0 /\ qres.height >= 0) =>
        qres.out = {e \in Inserted :
                      /\ qres.x <= pos[e][1] /\ pos[e][1] <= qres.x + qres.width
                      /\ qres.y <= pos[e][2] /\ pos[e][2] <= qres.y + qres.height}

\* C6 witness: a rectangle with an entity on its upper edge, one inside
\* and one outside.
C6_Witness ==
    /\ IsRect /\ InSync /\ Inserted = Entities
    /\ \E e \in qres.out : pos[e][1] = qres.x + qres.width /\ qres.width > 0
    /\ \E e \in qres.out : pos[e][1] < qres.x + qres.width
    /\ qres.out # Entities

----------------------------------------------------------------------------
(* RenderOptimizer, and the enemies of GameState.                           *)
(*                                                                          *)
(* Time, health, random angles and the smoothed camera are inputs: a spawn  *)
(* position, an enemy's next position and the camera position are drawn     *)
(* from small sets, a fatal blow and the spawner's timer running out may    *)
(* come at any time.  A spawn that the terrain rejects changes nothing.     *)

\* The enemy objects, in the order they are constructed.
EnemyPool == <<"A", "B">>

\* The positions enemies spawn at and move to: three different cells.
GamePoints == { <<10, 10>>, <<100, 100>>, <<200, 200>> }

\* The camera positions passed to update_visible_entities; from (0, 0) by
\* (10, 10) to (60, 0) the camera drifts in steps of at most 50.
Cameras == { <<0, 0>>, <<10, 10>>, <<50, 0>>, <<60, 0>>, <<100, 100>> }

\* The player object, constructed at Player(1000, 1000, settings).
Player == "player"
PlayerStart == <<1000, 1000>>

\* Program constants.
DefaultCellSize == 64
camera_moved_threshold == 50
SCREEN_WIDTH == 1200
SCREEN_HEIGHT == 800
max_enemies == 10

Abs(x) == IF x < 0 THEN -x ELSE x

Range(seq) == {seq[i] : i \in DOMAIN seq}

\* RenderOptimizer.add_entity: the entity's own x, y are passed on.
optimizer_add_entity(g, cs, ps, e) == add_entity(g, cs, e, ps[e])

\* RenderOptimizer.remove_entity: the entity's own x, y are passed on, and
\* the entity is discarded from the cached set.
optimizer_remove_entity(g, vis, cs, ps, e) ==
    [grid |-> remove_entity(g, cs, e, ps[e]), visible_entities |-> vis \ {e}]

\* update_visible_entities with >= in place of > in the threshold test.
update_visible_entities_at_threshold(vis, lcp, g, cs, ps, camera_x, camera_y) ==
    LET dx == Abs(camera_x - lcp[1])
        dy == Abs(camera_y - lcp[2])
    IN  IF dx >= camera_moved_threshold \/ dy >= camera_moved_threshold
        THEN [visible_entities |->
                 get_visible_entities(g, cs, ps, camera_x, camera_y,
                                      SCREEN_WIDTH, SCREEN_HEIGHT),
              last_camera_pos |-> <<camera_x, camera_y>>,
              queried |-> TRUE]
        ELSE [visible_entities |-> vis, last_camera_pos |-> lcp, queried |-> FALSE]

\* update_visible_entities with "and" in place of "or" in the threshold test.
update_visible_entities_both_axes(vis, lcp, g, cs, ps, camera_x, camera_y) ==
    LET dx == Abs(camera_x - lcp[1])
        dy == Abs(camera_y - lcp[2])
    IN  IF dx > camera_moved_threshold /\ dy > camera_moved_threshold
        THEN [visible_entities |->
                 get_visible_entities(g, cs, ps, camera_x, camera_y,
                                      SCREEN_WIDTH, SCREEN_HEIGHT),
              last_camera_pos |-> <<camera_x, camera_y>>,
              queried |-> TRUE]
        ELSE [visible_entities |-> vis, last_camera_pos |-> lcp, queried |-> FALSE]

\* update_visible_entities that remembers the camera position of every call.
update_visible_entities_track_call(vis, lcp, g, cs, ps, camera_x, camera_y) ==
    LET dx == Abs(camera_x - lcp[1])
        dy == Abs(camera_y - lcp[2])
    IN  IF dx > camera_moved_threshold \/ dy > camera_moved_threshold
        THEN [visible_entities |->
                 get_visible_entities(g, cs, ps, camera_x, camera_y,
                                      SCREEN_WIDTH, SCREEN_HEIGHT),
              last_camera_pos |-> <<camera_x, camera_y>>,
              queried |-> TRUE]
        ELSE [visible_entities |-> vis, last_camera_pos |-> <<camera_x, camera_y>>,
              queried |-> FALSE]

\* RenderOptimizer.update_visible_entities: the new cached set and camera
\* position, and whether the spatial hash was queried.
update_visible_entities(vis, lcp, g, cs, ps, camera_x, camera_y) ==
    LET dx == Abs(camera_x - lcp[1])
        dy == Abs(camera_y - lcp[2])
    IN  IF dx > camera_moved_threshold \/ dy > camera_moved_threshold
        THEN [visible_entities |->
                 get_visible_entities(g, cs, ps, camera_x, camera_y,
                                      SCREEN_WIDTH, SCREEN_HEIGHT),
              last_camera_pos |-> <<camera_x, camera_y>>,
              queried |-> TRUE]
        ELSE [visible_entities |-> vis, last_camera_pos |-> lcp, queried |-> FALSE]

\* GameState.__init__: no enemies, the camera at (0, 0), and the player
\* added to a RenderOptimizer with a SpatialHash of the default cell size.
InitGame ==
    /\ NoRpg
    /\ cell_size = DefaultCellSize
    /\ pos = [e \in {Player} |-> PlayerStart]
    /\ grid = optimizer_add_entity(EmptyGrid, DefaultCellSize,
                                   [e \in {Player} |-> PlayerStart], Player)
    /\ enemies = <<>>
    /\ alive = [e \in {} |-> TRUE]
    /\ created = 0
    /\ visible_entities = {}
    /\ last_camera_pos = <<0, 0>>
    /\ reported = NoneReported
    /\ proto = "kept"
    /\ readds = 0
    /\ stale_moves = 0
    /\ last = <<"init">>
    /\ qres = NoQuery
    /\ NoWorld

\* Enemy(spawn_x, spawn_y, settings): the next enemy object, alive, at p.
NewEnemy(e, p) ==
    /\ created < Len(EnemyPool)
    /\ e = EnemyPool[created + 1]
    /\ created' = created + 1
    /\ pos' = (e :> p) @@ pos
    /\ alive' = (e :> TRUE) @@ alive

\* self.enemies.append(enemy); self.render_optimizer.add_entity(enemy)
SpawnInserted(p, how) ==
    \E e \in Range(EnemyPool) :
        /\ NewEnemy(e, p)
        /\ enemies' = Append(enemies, e)
        /\ grid' = optimizer_add_entity(grid, cell_size, pos', e)
        /\ last' = <<how>>
        /\ UNCHANGED <<cell_size, visible_entities, last_camera_pos>>
        /\ UNCHANGED callerVars
    /\ UNCHANGED worldVars /\ UNCHANGED rpgVars
        /\ UNCHANGED worldVars /\ UNCHANGED rpgVars

\* GameState._spawn_enemy, at a walkable position
SpawnEnemy(p) == SpawnInserted(p, "_spawn_enemy")

\* GameState._spawn_elite_enemy, at a walkable position
SpawnEliteEnemy(p) == SpawnInserted(p, "_spawn_elite_enemy")

\* GameState._spawn_boss, at a walkable position
SpawnBoss(p) == SpawnInserted(p, "_spawn_boss")

\* EnemySpawner.update when the spawn timer has run out: _spawn_enemy
\* constructs an enemy and appends it to the list it was handed.
SpawnerUpdate(p) ==
    /\ Len(enemies) < max_enemies
    /\ \E e \in Range(EnemyPool) :
          /\ NewEnemy(e, p)
          /\ enemies' = Append(enemies, e)
    /\ last' = <<"EnemySpawner.update">>
    /\ UNCHANGED <<cell_size, grid, visible_entities, last_camera_pos>>
    /\ UNCHANGED callerVars
    /\ UNCHANGED worldVars /\ UNCHANGED rpgVars

\* Entity.take_damage with the blow that takes the enemy's health to 0.
KillEnemy(e) ==
    /\ e \in Range(enemies)
    /\ alive[e]
    /\ alive' = [alive EXCEPT ![e] = FALSE]
    /\ last' = <<"take_damage">>
    /\ UNCHANGED <<cell_size, grid, pos, enemies, created, visible_entities,
                   last_camera_pos>>
    /\ UNCHANGED callerVars
    /\ UNCHANGED worldVars /\ UNCHANGED rpgVars

\* for enemy in dead_enemies: self.render_optimizer.remove_entity(enemy)
RECURSIVE remove_dead(_, _, _, _, _)
remove_dead(g, vis, cs, ps, dead) ==
    IF dead = <<>>
    THEN [grid |-> g, visible_entities |-> vis]
    ELSE LET r == optimizer_remove_entity(g, vis, cs, ps, Head(dead))
         IN  remove_dead(r.grid, r.visible_entities, cs, ps, Tail(dead))

IsAlive(e) == alive[e]
IsDead(e) == ~alive[e]

\* GameState._update_enemies: the dead enemies are removed from the
\* RenderOptimizer and dropped from the list, then every enemy left is
\* updated, which may move it (Entity.move) to np[e].
UpdateEnemies(np) ==
    LET r == remove_dead(grid, visible_entities, cell_size, pos,
                         SelectSeq(enemies, IsDead))
    IN  /\ grid' = r.grid
        /\ visible_entities' = r.visible_entities
        /\ enemies' = SelectSeq(enemies, IsAlive)
        /\ DOMAIN np = Range(enemies')
        /\ pos' = [e \in DOMAIN pos |-> IF e \in DOMAIN np THEN np[e] ELSE pos[e]]
        /\ last' = <<"_update_enemies">>
        /\ UNCHANGED <<cell_size, alive, created, last_camera_pos>>
        /\ UNCHANGED callerVars
    /\ UNCHANGED worldVars /\ UNCHANGED rpgVars
        /\ UNCHANGED worldVars /\ UNCHANGED rpgVars

\* self.render_optimizer.update_visible_entities(camera_x, camera_y)
UpdateVisibleEntities(c) ==
    LET r == update_visible_entities(visible_entities, last_camera_pos, grid,
                                     cell_size, pos, c[1], c[2])
    IN  /\ visible_entities' = r.visible_entities
        /\ last_camera_pos' = r.last_camera_pos
        /\ last' = <<"update_visible_entities", c[1], c[2], r.queried>>
        /\ UNCHANGED <<cell_size, grid, pos, enemies, alive, created>>
        /\ UNCHANGED callerVars
    /\ UNCHANGED worldVars /\ UNCHANGED rpgVars
        /\ UNCHANGED worldVars /\ UNCHANGED rpgVars

NextGame ==
    \/ \E p \in GamePoints : SpawnEnemy(p)
    \/ \E p \in GamePoints : SpawnEliteEnemy(p)
    \/ \E p \in GamePoints : SpawnBoss(p)
    \/ \E p \in GamePoints : SpawnerUpdate(p)
    \/ \E e \in Range(EnemyPool) : KillEnemy(e)
    \/ \E live \in SUBSET Range(EnemyPool) :
          \E np \in [live -> GamePoints] : UpdateEnemies(np)
    \/ \E c \in Cameras : UpdateVisibleEntities(c)

SpecGame == InitGame /\ [][NextGame]_vars

----------------------------------------------------------------------------
(* Claims about RenderOptimizer and the enemies, checked under SpecGame.    *)

\* The step is a call update_visible_entities(cx, cy).
IsUpdateVisible(op) == op[1] = "update_visible_entities"

\* The set a query for the screen at camera position (cx, cy) returns.
ScreenQuery(cx, cy) ==
    get_entities_in_rect(grid, cell_size, pos, cx, cy, SCREEN_WIDTH, SCREEN_HEIGHT)

\* C7: update_visible_entities(cx, cy) with |cx - last_x| <= 50 and
\* |cy - last_y| <= 50 queries nothing and leaves the cached visible set
\* and last_camera_pos as they were, whatever happened in the spatial hash
\* since the last recompute.
C7_WithinThresholdKeepsCache ==
    [][ ( /\ IsUpdateVisible(last')
          /\ Abs(last'[2] - last_camera_pos[1]) <= 50
          /\ Abs(last'[3] - last_camera_pos[2]) <= 50 )
        => ( /\ ~last'[4]
             /\ visible_entities' = visible_entities
             /\ last_camera_pos' = last_camera_pos ) ]_vars

\* C7 witness: a call within the threshold (one axis exactly 50 away) has
\* returned, and the cached set is not what a query at that camera
\* position would give.
C7_Witness ==
    /\ IsUpdateVisible(last)
    /\ ~last[4]
    /\ Abs(last[2] - last_camera_pos[1]) = 50
    /\ visible_entities # ScreenQuery(last[2], last[3])

\* C8 as stated: a call whose camera delta on some axis is at or above the
\* threshold (>= 50) recomputes: the cache becomes the result of
\* get_entities_in_rect(cx, cy, SCREEN_WIDTH, SCREEN_HEIGHT) and
\* last_camera_pos becomes (cx, cy).
C8_RecomputeAtOrAboveAsStated ==
    [][ ( /\ IsUpdateVisible(last')
          /\ \/ Abs(last'[2] - last_camera_pos[1]) >= 50
             \/ Abs(last'[3] - last_camera_pos[2]) >= 50 )
        => ( /\ last'[4]
             /\ visible_entities' = ScreenQuery(last'[2], last'[3])
             /\ last_camera_pos' = <<last'[2], last'[3]>> ) ]_vars

\* C8 amended: a call whose camera delta on some axis is above the
\* threshold (> 50) recomputes once: the cache becomes the result of
\* get_entities_in_rect(cx, cy, SCREEN_WIDTH, SCREEN_HEIGHT) and
\* last_camera_pos becomes (cx, cy).
C8_RecomputeAboveThreshold ==
    [][ ( /\ IsUpdateVisible(last')
          /\ \/ Abs(last'[2] - last_camera_pos[1]) > 50
             \/ Abs(last'[3] - last_camera_pos[2]) > 50 )
        => ( /\ last'[4]
             /\ visible_entities' = ScreenQuery(last'[2], last'[3])
             /\ last_camera_pos' = <<last'[2], last'[3]>> ) ]_vars

\* C8 witness: a recompute caused by one axis alone (the other moved by 50
\* or less) has replaced a cache by a different, non-empty one.
C8_Witness ==
    /\ IsUpdateVisible(last)
    /\ last[4]
    /\ last_camera_pos = <<50, 0>>
    /\ visible_entities # {}
    /\ visible_entities # Range(enemies)

\* C9 as stated: every enemy in GameState.enemies is present in the
\* spatial hash, whichever spawn path created it.
C9_EnemiesAreInHash ==
    \A e \in Range(enemies) : e \in InGrid(grid)

\* The enemy objects constructed so far and no longer in GameState.enemies.
Dropped == {EnemyPool[i] : i \in 1..created} \ Range(enemies)

\* C10 as stated: an enemy that _update_enemies has dropped from the list
\* is a member of no cell of the spatial hash and not in the cached visible
\* set, however it moved between its insertion and its death.
C10_DroppedLeaveHash ==
    \A e \in Dropped : e \notin InGrid(grid) /\ e \notin visible_entities


\* C26: after every call update_visible_entities(cx, cy) the camera of the
\* call is within the threshold of last_camera_pos on both axes, and
\* last_camera_pos is the camera of the last recompute, not of the last
\* call: it changes only in a call that queries the hash, and a call
\* queries the hash exactly when its camera is more than the threshold
\* away from it on some axis, however small the step from the call before.
C26_DeltaAgainstLastRecompute ==
    [][IsUpdateVisible(last') =>
         /\ Abs(last'[2] - last_camera_pos'[1]) <= camera_moved_threshold
         /\ Abs(last'[3] - last_camera_pos'[2]) <= camera_moved_threshold
         /\ last'[4] <=>
               \/ Abs(last'[2] - last_camera_pos[1]) > camera_moved_threshold
               \/ Abs(last'[3] - last_camera_pos[2]) > camera_moved_threshold
         /\ last_camera_pos' =
               IF last'[4] THEN <<last'[2], last'[3]>> ELSE last_camera_pos]_vars

\* C26 witness: a call that did not recompute, with a camera other than
\* that of the last recompute, which was not the initial one.
C26_Witness ==
    /\ IsUpdateVisible(last) /\ ~last[4]
    /\ <<last[2], last[3]>> # last_camera_pos
    /\ last_camera_pos = <<60, 0>>
----------------------------------------------------------------------------
(* WorldGenerator (src/game/world/world_generator.py).                      *)
(*                                                                          *)
(* Noise values are in hundredths (-100 .. 100 for -1.0 .. 1.0), the        *)
(* normalised values (v + 1) / 2 in two-hundredths (0 .. 200 for 0.0 ..     *)
(* 1.0), and movement costs in tenths.  An Item object is represented by    *)
(* its identity, the order of its creation; what ItemFactory puts into it   *)
(* is left out.  Every random.randint and random.choice is a choice among   *)
(* the values the call can return: the shared generator of the random       *)
(* module is in a state the program does not control.                       *)

\* Settings.TILE_SIZE
TILE_SIZE == 32

\* WorldGenerator.world_width and world_height, scaled down from the 2000
\* of the source to a grid of three tiles by two.
world_width == 96
world_height == 64

\* The seeds random.randint(0, 1000000) returns.
Seeds == {0, 1}

\* The values of num_structures, of random.choice for the type (two of the
\* three), and of random.randint(2, 5) for the width and the height in tiles.
StructureCounts == {1, 2}
StructureTypes == {"ruins", "cave"}
SizeFactors == {2}

\* The values of num_items for a structure and of random.randint(-50, 50).
ItemCounts == {1}
Jitters == {-50, 50}

\* The values of num_random_items and of the coordinates drawn for a
\* world-wide item: the two ends of random.randint(0, world - tile_size).
MaxRandomItems == 1
RandomItemCounts == 1..MaxRandomItems
RandomXs == {0, world_width - TILE_SIZE}
RandomYs == {0, world_height - TILE_SIZE}

Biomes == {"grass", "forest", "water", "mountain", "desert", "snow"}

\* WorldGenerator.terrain_types: walkable and movement_cost (in tenths).
terrain_types == [b \in Biomes |->
    CASE b = "grass"    -> [walkable |-> TRUE,  movement_cost |-> 10]
      [] b = "forest"   -> [walkable |-> TRUE,  movement_cost |-> 15]
      [] b = "water"    -> [walkable |-> FALSE, movement_cost |-> 0]
      [] b = "mountain" -> [walkable |-> TRUE,  movement_cost |-> 20]
      [] b = "desert"   -> [walkable |-> TRUE,  movement_cost |-> 12]
      [] OTHER          -> [walkable |-> TRUE,  movement_cost |-> 13]]

\* noise.pnoise2 of the noise library, which is not part of the repository:
\* a fixed function of the two coordinates and the base, standing in for
\* the Perlin noise.  The coordinates are the tile indices (the source scales
\* them by 4 / tiles) plus the channel offset.
pnoise2(nx, ny, base) == (((nx * 19 + ny * 5 + base * 5) % 9) * 20) - 80

\* (value + 1) / 2, in two-hundredths.
normalize(v) == v + 100

\* _get_terrain_type with the height bands tested from the top: heights of
\* 0.85 and above come out as water.
get_terrain_type_high_water(height, moisture, temperature) ==
    LET h == normalize(height)
        m == normalize(moisture)
        t == normalize(temperature)
    IN  IF h >= 170 THEN "water"
        ELSE IF h >= 140 THEN (IF t < 60 THEN "snow" ELSE "mountain")
        ELSE IF h >= 80 THEN (IF m > 140 THEN "forest"
                              ELSE IF m > 80 THEN "grass" ELSE "desert")
        ELSE IF h >= 60 THEN (IF m > 120 THEN "grass" ELSE "desert")
        ELSE "mountain"

\* _get_terrain_type with <= in the first test: a height of exactly 0.30 is
\* water.
get_terrain_type_inclusive(height, moisture, temperature) ==
    LET h == normalize(height)
        m == normalize(moisture)
        t == normalize(temperature)
    IN  IF h <= 60 THEN "water"
        ELSE IF h < 80 THEN (IF m > 120 THEN "grass" ELSE "desert")
        ELSE IF h < 140 THEN (IF m > 140 THEN "forest"
                              ELSE IF m > 80 THEN "grass" ELSE "desert")
        ELSE IF h < 170 THEN (IF t < 60 THEN "snow" ELSE "mountain")
        ELSE "mountain"

\* WorldGenerator._get_terrain_type
get_terrain_type(height, moisture, temperature) ==
    LET h == normalize(height)
        m == normalize(moisture)
        t == normalize(temperature)
    IN  IF h < 60 THEN "water"
        ELSE IF h < 80 THEN (IF m > 120 THEN "grass" ELSE "desert")
        ELSE IF h < 140 THEN (IF m > 140 THEN "forest"
                              ELSE IF m > 80 THEN "grass" ELSE "desert")
        ELSE IF h < 170 THEN (IF t < 60 THEN "snow" ELSE "mountain")
        ELSE "mountain"

\* WorldGenerator._generate_terrain: terrain[y][x], rows and columns counted
\* from 1 here.
generate_terrain(seed) ==
    [y \in 1..(world_height \div TILE_SIZE) |->
        [x \in 1..(world_width \div TILE_SIZE) |->
            get_terrain_type(pnoise2(x - 1, y - 1, seed),
                             pnoise2(x - 1 + 1000, y - 1 + 1000, seed + 1),
                             pnoise2(x - 1 + 2000, y - 1 + 2000, seed + 2))]]

\* A site test that accepts every tile.
site_walkable_any(terrain_map, tile_x, tile_y) == TRUE

\* self.terrain_map[y][x] in ['grass', 'forest']
site_walkable(terrain_map, tile_x, tile_y) ==
    terrain_map[tile_y + 1][tile_x + 1] \in {"grass", "forest"}

\* The loop of _generate_structures: the lists n rounds can leave.
RECURSIVE structures_after(_, _)
structures_after(terrain_map, n) ==
    IF n = 0 THEN { <<>> }
    ELSE UNION {
        IF site_walkable(terrain_map, x, y)
        THEN { Append(done, [x |-> x * TILE_SIZE, y |-> y * TILE_SIZE,
                             type |-> ty,
                             width |-> w * TILE_SIZE, height |-> h * TILE_SIZE]) :
                 ty \in StructureTypes, w \in SizeFactors, h \in SizeFactors }
        ELSE { done } :
        done \in structures_after(terrain_map, n - 1),
        x \in 0..((world_width \div TILE_SIZE) - 1),
        y \in 0..((world_height \div TILE_SIZE) - 1) }

\* WorldGenerator._generate_structures: every list it can return.
generate_structures(terrain_map) ==
    UNION { structures_after(terrain_map, n) : n \in StructureCounts }

\* The inner loop of _generate_items for structure number i: the lists n
\* rounds can leave.  near records for which structure an item was made
\* (0: for none); the source keeps no such record.
RECURSIVE scatter_near(_, _, _, _)
scatter_near(done, structure, i, n) ==
    IF n = 0 THEN { done }
    ELSE UNION {
        { Append(l, [x |-> structure.x + jx, y |-> structure.y + jy,
                     item |-> Len(l) + 1, near |-> i]) :
            jx \in Jitters, jy \in Jitters } :
        l \in scatter_near(done, structure, i, n - 1) }

\* The first loop of _generate_items, over the structures 1 .. i.
RECURSIVE items_near_structures(_, _)
items_near_structures(structures, i) ==
    IF i = 0 THEN { <<>> }
    ELSE UNION { scatter_near(done, structures[i], i, n) :
                   done \in items_near_structures(structures, i - 1),
                   n \in ItemCounts }

\* The test of the second loop with the biome left out.
item_site_in_grid(terrain_map, x, y) ==
    LET tile_x == x \div TILE_SIZE
        tile_y == y \div TILE_SIZE
    IN  /\ 0 <= tile_y /\ tile_y < Len(terrain_map)
        /\ 0 <= tile_x /\ tile_x < Len(terrain_map[1])

\* The test of the second loop of _generate_items.
item_site(terrain_map, x, y) ==
    LET tile_x == x \div TILE_SIZE
        tile_y == y \div TILE_SIZE
    IN  /\ 0 <= tile_y /\ tile_y < Len(terrain_map)
        /\ 0 <= tile_x /\ tile_x < Len(terrain_map[1])
        /\ terrain_map[tile_y + 1][tile_x + 1] \in {"grass", "forest"}

\* The second loop of _generate_items: the lists n rounds can leave.
RECURSIVE scatter_world(_, _, _)
scatter_world(terrain_map, done, n) ==
    IF n = 0 THEN { done }
    ELSE UNION {
        { IF item_site(terrain_map, x, y)
          THEN Append(l, [x |-> x, y |-> y, item |-> Len(l) + 1, near |-> 0])
          ELSE l : x \in RandomXs, y \in RandomYs } :
        l \in scatter_world(terrain_map, done, n - 1) }

\* WorldGenerator._generate_items: every list it can return.
generate_items(terrain_map, structures) ==
    UNION { scatter_world(terrain_map, done, n) :
              done \in items_near_structures(structures, Len(structures)),
              n \in RandomItemCounts }

\* WorldGenerator.__init__: every generator it can construct.
WorldGenerators ==
    UNION { UNION { { [seed |-> seed,
                       terrain_map |-> generate_terrain(seed),
                       structures |-> st,
                       items |-> it] :
                      it \in generate_items(generate_terrain(seed), st) } :
                    st \in generate_structures(generate_terrain(seed)) } :
            seed \in Seeds }

\* get_terrain_at with water as the default outside the map.
get_terrain_at_default_water(terrain_map, x, y) ==
    LET tile_x == x \div TILE_SIZE
        tile_y == y \div TILE_SIZE
    IN  IF /\ 0 <= tile_y /\ tile_y < Len(terrain_map)
           /\ 0 <= tile_x /\ tile_x < Len(terrain_map[1])
        THEN terrain_map[tile_y + 1][tile_x + 1]
        ELSE "water"

\* WorldGenerator.get_terrain_at
get_terrain_at(terrain_map, x, y) ==
    LET tile_x == x \div TILE_SIZE
        tile_y == y \div TILE_SIZE
    IN  IF /\ 0 <= tile_y /\ tile_y < Len(terrain_map)
           /\ 0 <= tile_x /\ tile_x < Len(terrain_map[1])
        THEN terrain_map[tile_y + 1][tile_x + 1]
        ELSE "grass"

\* is_walkable_at that takes every tile for walkable.
is_walkable_at_always(terrain_map, x, y) == TRUE

\* WorldGenerator.is_walkable_at
is_walkable_at(terrain_map, x, y) ==
    terrain_types[get_terrain_at(terrain_map, x, y)].walkable

\* WorldGenerator.get_movement_cost_at
get_movement_cost_at(terrain_map, x, y) ==
    terrain_types[get_terrain_at(terrain_map, x, y)].movement_cost

\* GameState._pickup_nearby_items that works on the generator's own list
\* instead of a copy of it.
pickup_nearby_items_shared(its, world_items, p, room) ==
    LET nearby == {i \in 1..Len(its) :
                     (p[1] - its[i].x) * (p[1] - its[i].x)
                     + (p[2] - its[i].y) * (p[2] - its[i].y) <= 50 * 50}
        taken  == {i \in nearby : Cardinality({j \in nearby : j < i}) < room}
        ids    == {its[i].item : i \in taken}
    IN  [items |-> SelectSeq(its, LAMBDA d : d.item \notin ids),
         world_items |-> SelectSeq(world_items, LAMBDA d : d.item \notin ids)]

\* GameState._pickup_nearby_items: the items within pickup_range (50) of the
\* player, in list order, go to the inventory as long as it has room, and
\* are removed from GameState.items.
pickup_nearby_items(its, world_items, p, room) ==
    LET nearby == {i \in 1..Len(its) :
                     (p[1] - its[i].x) * (p[1] - its[i].x)
                     + (p[2] - its[i].y) * (p[2] - its[i].y) <= 50 * 50}
        taken  == {i \in nearby : Cardinality({j \in nearby : j < i}) < room}
        ids    == {its[i].item : i \in taken}
    IN  [items |-> SelectSeq(its, LAMBDA d : d.item \notin ids),
         world_items |-> world_items]

\* The spatial index is not in use.
NoIndex ==
    /\ cell_size = DefaultCellSize
    /\ grid = EmptyGrid
    /\ pos = [e \in Entities |-> <<10, 10>>]
    /\ reported = NoneReported
    /\ proto = "kept"
    /\ readds = 0
    /\ stale_moves = 0
    /\ qres = NoQuery

indexVars == <<cell_size, grid, pos, reported, proto, readds, stale_moves, qres>>

----------------------------------------------------------------------------
(* The biome classifier on its own. *)

\* The noise values given to the classifier: the ends of the range and the
\* values at and next to every threshold of the table.
NoiseValues == {-100, -41, -40, -39, -21, -20, -19, 0, 19, 20, 21,
                39, 40, 41, 69, 70, 71, 100}

InitBiome ==
    /\ NoRpg
    /\ tres \in { [kind |-> "input", height |-> h, moisture |-> m, temperature |-> t] :
                    h \in NoiseValues, m \in NoiseValues, t \in NoiseValues }
    /\ generators = <<>>
    /\ items = <<>>
    /\ last = <<"init">>
    /\ NoIndex
    /\ NoGame

\* self._get_terrain_type(height, moisture, temperature)
GetTerrainType ==
    /\ tres.kind = "input"
    /\ tres' = [kind |-> "_get_terrain_type",
                height |-> tres.height, moisture |-> tres.moisture,
                temperature |-> tres.temperature,
                biome |-> get_terrain_type(tres.height, tres.moisture,
                                           tres.temperature)]
    /\ UNCHANGED <<generators, items, last>>
    /\ UNCHANGED indexVars /\ UNCHANGED rpgVars
    /\ UNCHANGED gameVars

NextBiome == GetTerrainType

SpecBiome == InitBiome /\ [][NextBiome]_vars

----------------------------------------------------------------------------
(* A generated world in a running game. *)

\* The coordinates looked up: inside the map (a tile's first and last
\* unit), left of it, above it, and at its right and lower edge.
LookupPoints == { <<0, 0>>, <<31, 32>>, <<64, 63>>, <<95, 63>>,
                  <<-1, 0>>, <<0, -1>>, <<96, 0>>, <<0, 64>> }

\* Where the player stands when items are picked up, and how much room the
\* inventory has left.
PlayerSpots == { <<0, 0>>, <<50, 50>>, <<0, 32>>, <<64, 32>> }
Rooms == {0, 1, 2}

\* GameState.__init__: the world is generated and GameState.items is a copy
\* of the generator's list.
InitWorld ==
    /\ NoRpg
    /\ generators \in { <<g>> : g \in WorldGenerators }
    /\ items = generators[1].items
    /\ tres = NoQuery
    /\ last = <<"init">>
    /\ NoIndex
    /\ NoGame

\* world_generator.get_terrain_at(x, y)
GetTerrainAt(x, y) ==
    /\ tres' = [kind |-> "get_terrain_at", x |-> x, y |-> y,
                result |-> get_terrain_at(generators[1].terrain_map, x, y)]
    /\ UNCHANGED <<generators, items, last>>
    /\ UNCHANGED indexVars /\ UNCHANGED rpgVars
    /\ UNCHANGED gameVars

\* world_generator.is_walkable_at(x, y), as the _spawn_ methods call it
IsWalkableAt(x, y) ==
    /\ tres' = [kind |-> "is_walkable_at", x |-> x, y |-> y,
                result |-> is_walkable_at(generators[1].terrain_map, x, y)]
    /\ UNCHANGED <<generators, items, last>>
    /\ UNCHANGED indexVars /\ UNCHANGED rpgVars
    /\ UNCHANGED gameVars

\* world_generator.get_movement_cost_at(x, y)
GetMovementCostAt(x, y) ==
    /\ tres' = [kind |-> "get_movement_cost_at", x |-> x, y |-> y,
                result |-> get_movement_cost_at(generators[1].terrain_map, x, y)]
    /\ UNCHANGED <<generators, items, last>>
    /\ UNCHANGED indexVars /\ UNCHANGED rpgVars
    /\ UNCHANGED gameVars

\* GameState._pickup_nearby_items with the player at p
PickupNearbyItems(p, room) ==
    /\ LET r == pickup_nearby_items(items, generators[1].items, p, room) IN
        /\ items' = r.items
        /\ generators' = [generators EXCEPT ![1].items = r.world_items]
    /\ tres' = [kind |-> "_pickup_nearby_items"]
    /\ UNCHANGED last
    /\ UNCHANGED indexVars /\ UNCHANGED rpgVars
    /\ UNCHANGED gameVars

\* world_generator.render_world(screen, camera_offset): it reads the map,
\* the structures and the items and draws them.
RenderWorld ==
    /\ tres' = [kind |-> "render_world"]
    /\ UNCHANGED <<generators, items, last>>
    /\ UNCHANGED indexVars /\ UNCHANGED rpgVars
    /\ UNCHANGED gameVars

NextWorld ==
    \/ \E p \in LookupPoints : GetTerrainAt(p[1], p[2])
    \/ \E p \in LookupPoints : IsWalkableAt(p[1], p[2])
    \/ \E p \in LookupPoints : GetMovementCostAt(p[1], p[2])
    \/ \E p \in PlayerSpots, room \in Rooms : PickupNearbyItems(p, room)
    \/ RenderWorld

SpecWorld == InitWorld /\ [][NextWorld]_vars

----------------------------------------------------------------------------
(* Generators constructed one after the other. *)

MaxGenerators == 2

InitSeed ==
    /\ NoRpg
    /\ generators = <<>>
    /\ items = <<>>
    /\ tres = NoQuery
    /\ last = <<"init">>
    /\ NoIndex
    /\ NoGame

\* WorldGenerator(settings)
ConstructWorldGenerator ==
    /\ Len(generators) < MaxGenerators
    /\ \E g \in WorldGenerators : generators' = Append(generators, g)
    /\ UNCHANGED <<items, tres, last>>
    /\ UNCHANGED indexVars /\ UNCHANGED rpgVars
    /\ UNCHANGED gameVars

NextSeed == ConstructWorldGenerator

SpecSeed == InitSeed /\ [][NextSeed]_vars

----------------------------------------------------------------------------
(* Claims about the world generator. *)

\* C12: two generators constructed with the same seed have the same terrain
\* map, the same structure list and the same item placements: the
\* generated world is a function of the seed alone.
C12_SeedDeterminesWorld ==
    \A i \in DOMAIN generators, j \in DOMAIN generators :
        generators[i].seed = generators[j].seed
        => /\ generators[i].terrain_map = generators[j].terrain_map
           /\ generators[i].structures = generators[j].structures
           /\ generators[i].items = generators[j].items

\* The ordered threshold table of the classifier, on normalised values in
\* two-hundredths (0.30 is 60, 0.40 is 80, 0.60 is 120, 0.70 is 140,
\* 0.85 is 170).
BiomeTable(h, m, t) ==
    CASE h < 60  -> "water"
      [] h >= 60 /\ h < 80 /\ m > 120 -> "grass"
      [] h >= 60 /\ h < 80 /\ m <= 120 -> "desert"
      [] h >= 80 /\ h < 140 /\ m > 140 -> "forest"
      [] h >= 80 /\ h < 140 /\ m <= 140 /\ m > 80 -> "grass"
      [] h >= 80 /\ h < 140 /\ m <= 80 -> "desert"
      [] h >= 140 /\ h < 170 /\ t < 60 -> "snow"
      [] h >= 140 /\ h < 170 /\ t >= 60 -> "mountain"
      [] h >= 170 -> "mountain"

Classified == tres # NoQuery /\ tres.kind = "_get_terrain_type"

\* C13: for every triple of values, _get_terrain_type returns the biome the
\* ordered threshold table gives for the normalised values; the result is
\* one of the six biomes, and a normalised height below 0.30 gives water
\* whatever the moisture and the temperature are.
C13_ClassifierIsTable ==
    Classified =>
        /\ tres.biome = BiomeTable(normalize(tres.height), normalize(tres.moisture),
                                   normalize(tres.temperature))
        /\ tres.biome \in Biomes
        /\ normalize(tres.height) < 60 => tres.biome = "water"

\* C13 witness: a height of exactly 0.30 with a moisture above 0.60 has been
\* classified, and came out as grass, not water.
C13_Witness ==
    /\ Classified
    /\ normalize(tres.height) = 60
    /\ normalize(tres.moisture) > 120
    /\ tres.biome = "grass"

\* The first and the last band of the order water < {grass, desert} <
\* {forest, grass, desert} < {snow, mountain} < mountain a biome is in.
FirstBand(b) ==
    CASE b = "water" -> 1
      [] b \in {"grass", "desert"} -> 2
      [] b = "forest" -> 3
      [] OTHER -> 4

LastBand(b) ==
    CASE b = "water" -> 1
      [] b \in {"grass", "desert", "forest"} -> 3
      [] b = "snow" -> 4
      [] OTHER -> 5

\* C14: with the moisture and the temperature held fixed, the classifier is
\* monotone in the height: for h1 <= h2 the band of the biome returned for
\* h2 is never earlier than the band of the biome returned for h1.
C14_MonotoneInHeight ==
    Classified =>
        \A h1 \in NoiseValues :
            h1 <= tres.height
            => FirstBand(get_terrain_type(h1, tres.moisture, tres.temperature))
                 <= LastBand(tres.biome)

\* C14 witness: snow has been returned for a height for which a lower height
\* of the same moisture and temperature gives water and another one forest.
C14_Witness ==
    /\ Classified
    /\ tres.biome = "snow"
    /\ \E h1 \in NoiseValues, h0 \in NoiseValues :
          /\ h0 < h1 /\ h1 < tres.height
          /\ get_terrain_type(h0, tres.moisture, tres.temperature) = "water"
          /\ get_terrain_type(h1, tres.moisture, tres.temperature) = "forest"

\* The tile indices of a coordinate, and whether they are inside the grid
\* of (world_width div tile_size) x (world_height div tile_size) tiles.
TileOf(x, y) == <<x \div TILE_SIZE, y \div TILE_SIZE>>

InsideGrid(x, y) ==
    /\ 0 <= TileOf(x, y)[1] /\ TileOf(x, y)[1] < world_width \div TILE_SIZE
    /\ 0 <= TileOf(x, y)[2] /\ TileOf(x, y)[2] < world_height \div TILE_SIZE

\* The stored biome of the tile of (x, y), for a coordinate inside the grid.
StoredBiome(x, y) ==
    generators[1].terrain_map[TileOf(x, y)[2] + 1][TileOf(x, y)[1] + 1]

LookedUp(kind) == tres # NoQuery /\ tres.kind = kind

\* C15: get_terrain_at(x, y) returns the stored biome of tile
\* (floor(x / tile_size), floor(y / tile_size)) when both indices are inside
\* the grid, and grass for every other coordinate, negative ones and those
\* at or beyond the grid edge included; it always returns a biome.
C15_TerrainAtOrGrass ==
    LookedUp("get_terrain_at") =>
        /\ tres.result \in Biomes
        /\ tres.result = IF InsideGrid(tres.x, tres.y)
                         THEN StoredBiome(tres.x, tres.y)
                         ELSE "grass"

\* C15 witness: a lookup one unit left of a map whose first tile is water
\* has returned grass.
C15_Witness ==
    /\ LookedUp("get_terrain_at")
    /\ tres.x = -1 /\ tres.y = 0
    /\ StoredBiome(0, 0) = "water"
    /\ tres.result = "grass"

\* C16: is_walkable_at(x, y) is the walkable flag and get_movement_cost_at
\* (x, y) the movement cost of the biome table's entry for the biome of
\* (x, y); is_walkable_at is False exactly when the tile's biome is water,
\* and True for every coordinate outside the grid.
C16_WalkableAndCostFromTable ==
    LET b == IF InsideGrid(tres.x, tres.y)
             THEN StoredBiome(tres.x, tres.y) ELSE "grass"
    IN  /\ LookedUp("is_walkable_at") =>
              /\ tres.result = terrain_types[b].walkable
              /\ tres.result = FALSE
                   <=> (InsideGrid(tres.x, tres.y)
                        /\ StoredBiome(tres.x, tres.y) = "water")
              /\ ~InsideGrid(tres.x, tres.y) => tres.result = TRUE
        /\ LookedUp("get_movement_cost_at") =>
              tres.result = terrain_types[b].movement_cost

\* C16 witness: is_walkable_at has returned False for a water tile.
C16_Witness ==
    /\ LookedUp("is_walkable_at")
    /\ InsideGrid(tres.x, tres.y)
    /\ StoredBiome(tres.x, tres.y) = "water"
    /\ tres.result = FALSE

\* C17: every structure has its origin on a tile boundary inside the grid,
\* and the biome of the origin tile in terrain_map is grass or forest.
C17_StructuresOnGrassOrForest ==
    \A g \in DOMAIN generators :
        \A k \in DOMAIN generators[g].structures :
            LET st == generators[g].structures[k] IN
            /\ st.x % TILE_SIZE = 0 /\ st.y % TILE_SIZE = 0
            /\ InsideGrid(st.x, st.y)
            /\ generators[g].terrain_map[(st.y \div TILE_SIZE) + 1]
                                        [(st.x \div TILE_SIZE) + 1]
                 \in {"grass", "forest"}

\* C17 witness: a world with two structures on different tiles, whose map
\* also has tiles that are neither grass nor forest.
C17_Witness ==
    /\ Len(generators) = 1
    /\ Len(generators[1].structures) = 2
    /\ generators[1].structures[1].x # generators[1].structures[2].x
    /\ \E y \in DOMAIN generators[1].terrain_map :
         \E x \in DOMAIN generators[1].terrain_map[y] :
            generators[1].terrain_map[y][x] \notin {"grass", "forest"}

\* The items of generator g made for structure number k (0: for none).
ItemsFor(g, k) ==
    {i \in DOMAIN generators[g].items : generators[g].items[i].near = k}

\* C18: every entry of WorldGenerator.items is either one of the 1 to 3
\* items scattered for a structure, within 50 world units of that
\* structure's origin on both axes, or a world-wide item whose own tile in
\* terrain_map is grass or forest; the world-wide items are at most as many
\* as the largest num_random_items (25 in the source).
C18_ItemsNearStructuresOrWalkable ==
    \A g \in DOMAIN generators :
        /\ \A i \in DOMAIN generators[g].items :
              LET it == generators[g].items[i] IN
              IF it.near # 0
              THEN /\ it.near \in DOMAIN generators[g].structures
                   /\ Abs(it.x - generators[g].structures[it.near].x) <= 50
                   /\ Abs(it.y - generators[g].structures[it.near].y) <= 50
              ELSE /\ InsideGrid(it.x, it.y)
                   /\ generators[g].terrain_map[(it.y \div TILE_SIZE) + 1]
                                               [(it.x \div TILE_SIZE) + 1]
                        \in {"grass", "forest"}
        /\ \A k \in DOMAIN generators[g].structures :
              Cardinality(ItemsFor(g, k)) \in 1..3
        /\ Cardinality(ItemsFor(g, 0)) <= MaxRandomItems

\* C18 witness: a world with items for two structures on different tiles
\* and a world-wide item, on a map that has a corner tile which is neither
\* grass nor forest.
C18_Witness ==
    /\ Len(generators) = 1
    /\ Len(generators[1].structures) = 2
    /\ generators[1].structures[1].x # generators[1].structures[2].x
    /\ ItemsFor(1, 1) # {} /\ ItemsFor(1, 2) # {} /\ ItemsFor(1, 0) # {}
    /\ \E x \in RandomXs, y \in RandomYs :
          StoredBiome(x, y) \notin {"grass", "forest"}

\* C19: after construction no operation (terrain lookups, the walkability
\* test of spawning, rendering, item pickup) changes terrain_map, structures
\* or the generator's items; a pickup only shortens GameState.items.
C19_WorldNeverModified ==
    [][ /\ generators' = generators
        /\ items' # items => Len(items') < Len(items) ]_vars

\* C19 witness: items have been picked up, GameState.items is shorter than
\* the generator's list.
C19_Witness ==
    /\ LookedUp("_pickup_nearby_items")
    /\ Len(generators) = 1
    /\ Len(items) < Len(generators[1].items)

----------------------------------------------------------------------------
(* Construction with a configuration that may be invalid. *)

\* The cell sizes and tile sizes a caller may configure, valid or not.
ConfigCellSizes == {-64, -5, 0, 5, 64}
ConfigTileSizes == {-32, 0, 32, 128}

\* SpatialHash.__init__(cell_size): the cell size is stored as it is given.
InitConfig ==
    /\ NoRpg
    /\ cell_size \in ConfigCellSizes
    /\ grid = EmptyGrid
    /\ pos = [e \in Entities |-> <<10, 10>>]
    /\ reported = NoneReported
    /\ proto = "kept"
    /\ readds = 0
    /\ stale_moves = 0
    /\ last = <<"init">>
    /\ qres = NoQuery
    /\ NoGame
    /\ NoWorld

\* add_entity, remove_entity or update_entity_position on a grid whose
\* cell_size is 0: _get_cell_key divides by it and raises.
CellKeyRaises ==
    /\ cell_size = 0
    /\ last' = <<"ZeroDivisionError">>
    /\ UNCHANGED <<cell_size, grid, pos, reported, proto, readds, stale_moves, qres>>
    /\ UNCHANGED gameVars
    /\ UNCHANGED worldVars /\ UNCHANGED rpgVars

\* How WorldGenerator.__init__ ends for a Settings.TILE_SIZE of tile_size:
\* _generate_terrain divides by it, and _generate_structures draws
\* random.randint(0, (world_width // tile_size) - 1), which raises for an
\* empty range.
world_generator_outcome(tile_size) ==
    IF tile_size = 0 THEN "ZeroDivisionError"
    ELSE IF floordiv(world_width, tile_size) - 1 < 0
            \/ floordiv(world_height, tile_size) - 1 < 0
         THEN "ValueError"
         ELSE "constructed"

\* WorldGenerator(settings) with settings.TILE_SIZE = tile_size
ConstructWithTileSize(tile_size) ==
    /\ tres' = [kind |-> "WorldGenerator", tile_size |-> tile_size,
                outcome |-> world_generator_outcome(tile_size)]
    /\ UNCHANGED <<generators, items, last>>
    /\ UNCHANGED indexVars /\ UNCHANGED rpgVars
    /\ UNCHANGED gameVars

NextConfig ==
    \/ cell_size # 0 /\ NextHash
    \/ cell_size = 0 /\ Clear
    \/ CellKeyRaises
    \/ \E ts \in ConfigTileSizes : ConstructWithTileSize(ts)

SpecConfig == InitConfig /\ [][NextConfig]_vars

\* C20: a spatial grid with cell_size <= 0 and a world generator with
\* tile_size <= 0 fail at construction: no grid object with such a cell
\* size exists, and no such generator is constructed.
C20_InvalidConfigFailsFast ==
    /\ cell_size > 0
    /\ (LookedUp("WorldGenerator") /\ tres.tile_size <= 0)
          => tres.outcome # "constructed"

\* C20, the part about use: a grid with cell_size <= 0 never holds an entity.
C20_InvalidGridNeverUsed == cell_size <= 0 => grid = EmptyGrid

----------------------------------------------------------------------------
(* Player (src/game/entities/player.py): the inventory and the equipment.   *)
(*                                                                          *)
(* The inventory is a Python list of item objects; the same object may be   *)
(* in it more than once.  Item defines no __eq__, so "in" and list.remove   *)
(* compare identities, and no __bool__, so an equipped item is truthy.      *)

\* The item objects handed to the player: two weapons, an armor and a
\* consumable.
Items == {"sword", "axe", "mail", "potion"}

\* Item.item_type, set by the constructors of Weapon, Armor and Consumable.
item_type(item) ==
    CASE item \in {"sword", "axe"} -> "weapon"
      [] item = "mail" -> "armor"
      [] OTHER -> "consumable"

\* Item.attack_bonus: the argument of Weapon(name, attack_bonus), 0 otherwise.
attack_bonus(item) ==
    CASE item = "sword" -> 5
      [] item = "axe" -> 10
      [] OTHER -> 0

\* None
None == "None"

\* Player.max_inventory_size, 20 in the program, scaled down.
max_inventory_size == 3

\* Entity.__init__ and Player.__init__: the fields of Player(x, y, settings).
NewPlayer(x, y) ==
    [x |-> x, y |-> y, width |-> TILE_SIZE, height |-> TILE_SIZE,
     collision_rect |-> <<x, y, TILE_SIZE, TILE_SIZE>>,
     max_health |-> 150, health |-> 150, attack_power |-> 15, defense |-> 8,
     alive |-> TRUE,
     experience |-> 0, level |-> 1, experience_to_next_level |-> 100,
     inventory |-> <<>>, equipped_weapon |-> None, equipped_armor |-> None,
     attack_cooldown |-> 0, attack_range |-> 50]

\* item in self.inventory
InInventory(pl, item) == \E i \in DOMAIN pl.inventory : pl.inventory[i] = item

\* list.remove(item): the list without the first occurrence of item.
list_remove(seq, item) ==
    LET first == CHOOSE i \in DOMAIN seq :
                    /\ seq[i] = item
                    /\ \A j \in DOMAIN seq : seq[j] = item => i <= j
    IN  [i \in 1..(Len(seq) - 1) |-> IF i < first THEN seq[i] ELSE seq[i + 1]]

\* add_item_to_inventory with <= in place of < in the test of the size.
add_item_to_inventory_inclusive(pl, item) ==
    IF Len(pl.inventory) <= max_inventory_size
    THEN [player |-> [pl EXCEPT !.inventory = Append(@, item)], result |-> TRUE]
    ELSE [player |-> pl, result |-> FALSE]

\* Player.add_item_to_inventory
add_item_to_inventory(pl, item) ==
    IF Len(pl.inventory) < max_inventory_size
    THEN [player |-> [pl EXCEPT !.inventory = Append(@, item)], result |-> TRUE]
    ELSE [player |-> pl, result |-> FALSE]

\* Player.remove_item_from_inventory
remove_item_from_inventory(pl, item) ==
    IF InInventory(pl, item)
    THEN [player |-> [pl EXCEPT !.inventory = list_remove(@, item)], result |-> TRUE]
    ELSE [player |-> pl, result |-> FALSE]

\* equip_item without the append of the item equipped before.
equip_item_drop_previous(pl, item) ==
    IF ~InInventory(pl, item)
    THEN [player |-> pl, result |-> FALSE]
    ELSE IF item_type(item) = "weapon"
    THEN [player |-> [pl EXCEPT !.equipped_weapon = item,
                                !.inventory = list_remove(@, item)],
          result |-> TRUE]
    ELSE IF item_type(item) = "armor"
    THEN [player |-> [pl EXCEPT !.equipped_armor = item,
                                !.inventory = list_remove(@, item)],
          result |-> TRUE]
    ELSE [player |-> pl, result |-> FALSE]

\* Player.equip_item
equip_item(pl, item) ==
    IF ~InInventory(pl, item)
    THEN [player |-> pl, result |-> FALSE]
    ELSE IF item_type(item) = "weapon"
    THEN LET back == IF pl.equipped_weapon # None
                     THEN Append(pl.inventory, pl.equipped_weapon)
                     ELSE pl.inventory
         IN  [player |-> [pl EXCEPT !.equipped_weapon = item,
                                    !.inventory = list_remove(back, item)],
              result |-> TRUE]
    ELSE IF item_type(item) = "armor"
    THEN LET back == IF pl.equipped_armor # None
                     THEN Append(pl.inventory, pl.equipped_armor)
                     ELSE pl.inventory
         IN  [player |-> [pl EXCEPT !.equipped_armor = item,
                                    !.inventory = list_remove(back, item)],
              result |-> TRUE]
    ELSE [player |-> pl, result |-> FALSE]

\* The variables the player's methods leave alone.
NotPlayer ==
    /\ UNCHANGED <<target, current_state, reset_threads, quests, last_quest_level>>
    /\ UNCHANGED indexVars
    /\ UNCHANGED gameVars
    /\ UNCHANGED <<generators, items, tres>>

\* Player(100, 100, settings), as the tests construct it.
InitInventory ==
    /\ player = NewPlayer(100, 100)
    /\ target = <<>>
    /\ current_state = "game"
    /\ reset_threads = {}
    /\ quests = <<>>
    /\ last_quest_level = 0
    /\ last = <<"init">>
    /\ NoIndex /\ qres = NoQuery /\ NoGame /\ NoWorld

\* self.player.add_item_to_inventory(item)
AddItemToInventory(item) ==
    LET r == add_item_to_inventory(player, item)
    IN  /\ player' = r.player
        /\ last' = <<"add_item_to_inventory", item, r.result>>
        /\ NotPlayer

\* self.player.remove_item_from_inventory(item)
RemoveItemFromInventory(item) ==
    LET r == remove_item_from_inventory(player, item)
    IN  /\ player' = r.player
        /\ last' = <<"remove_item_from_inventory", item, r.result>>
        /\ NotPlayer

\* self.player.equip_item(item)
EquipItem(item) ==
    LET r == equip_item(player, item)
    IN  /\ player' = r.player
        /\ last' = <<"equip_item", item, r.result>>
        /\ NotPlayer

NextInventory ==
    \/ \E item \in Items : AddItemToInventory(item)
    \/ \E item \in Items : RemoveItemFromInventory(item)
    \/ \E item \in Items : EquipItem(item)

SpecInventory == InitInventory /\ [][NextInventory]_vars

----------------------------------------------------------------------------
(* Claims about the inventory, checked under SpecInventory.                 *)

\* How many times item is in the list.
Count(seq, item) == Cardinality({i \in DOMAIN seq : seq[i] = item})

\* How many times the player holds item: in the inventory and in the slots.
Held(pl, item) ==
    Count(pl.inventory, item)
      + (IF pl.equipped_weapon = item THEN 1 ELSE 0)
      + (IF pl.equipped_armor = item THEN 1 ELSE 0)

\* C21: after any sequence of add_item_to_inventory,
\* remove_item_from_inventory and equip_item calls the inventory holds at
\* most max_inventory_size items, and add_item_to_inventory on a full
\* inventory returns False and leaves the inventory unchanged.
C21_InventoryBounded ==
    /\ [](Len(player.inventory) <= max_inventory_size)
    /\ [][(last'[1] = "add_item_to_inventory"
             /\ Len(player.inventory) = max_inventory_size)
            => (last'[3] = FALSE /\ player'.inventory = player.inventory)]_vars

\* C21 witness: an add was refused on a full inventory, with a weapon
\* equipped.
C21_Witness ==
    /\ last[1] = "add_item_to_inventory" /\ last[3] = FALSE
    /\ Len(player.inventory) = max_inventory_size
    /\ player.equipped_weapon # None

\* C22: equip_item(item) for a weapon or armor in the inventory returns
\* True, makes item the equipped weapon or armor, takes one occurrence of
\* it out of the inventory and appends the item equipped before, so that
\* the player holds every item as often as before; for an item not in the
\* inventory, or of another type, it returns False and changes nothing.
C22_EquipPreservesItems ==
    [][last'[1] = "equip_item" =>
         LET item == last'[2]
             kind == item_type(item)
             old  == IF kind = "weapon" THEN player.equipped_weapon
                     ELSE player.equipped_armor
         IN  IF InInventory(player, item) /\ kind \in {"weapon", "armor"}
             THEN /\ last'[3] = TRUE
                  /\ kind = "weapon" => /\ player'.equipped_weapon = item
                                        /\ player'.equipped_armor = player.equipped_armor
                  /\ kind = "armor" => /\ player'.equipped_armor = item
                                       /\ player'.equipped_weapon = player.equipped_weapon
                  /\ \A i \in Items :
                        /\ Held(player', i) = Held(player, i)
                        /\ Count(player'.inventory, i) =
                              Count(player.inventory, i)
                                - (IF i = item THEN 1 ELSE 0)
                                + (IF i = old THEN 1 ELSE 0)
             ELSE /\ last'[3] = FALSE
                  /\ player' = player]_vars

\* C22 witness: a weapon was equipped in place of another one, which went
\* back into the inventory.
C22_Witness ==
    /\ last[1] = "equip_item" /\ last[3] = TRUE
    /\ player.equipped_weapon = "axe"
    /\ InInventory(player, "sword")
    /\ player.equipped_armor = "mail"

----------------------------------------------------------------------------
(* Player.gain_experience and Player.level_up.                              *)
(*                                                                          *)
(* The while loop of gain_experience is taken one iteration at a time, so   *)
(* that its termination is a property of the behaviours: last holds the     *)
(* call, where it stands ("while" or "returned") and the player as it was   *)
(* when the call was made.  No other method runs before the call returns.   *)
(* int(e * 1.2) is the floating-point product truncated; for every e below  *)
(* 5000 it equals the exact (12 * e) \div 10 used here.                     *)

\* The amounts of experience gained at once: nothing, a kill (20), the
\* test's 100 and a quest reward large enough for several levels.
Amounts == {0, 20, 100, 500}

\* The health of the player when the first call is made.
StartHealths == {150, 60}

\* No call of gain_experience is made at this level or above.
MaxLevel == 4

\* The loop test of gain_experience with > in place of >=.
reaches_next_level_strict(pl) == pl.experience > pl.experience_to_next_level

\* The loop test of gain_experience.
reaches_next_level(pl) == pl.experience >= pl.experience_to_next_level

\* Player.level_up
level_up(pl) ==
    [pl EXCEPT !.experience = @ - pl.experience_to_next_level,
               !.level = @ + 1,
               !.max_health = @ + 10,
               !.health = pl.max_health + 10,
               !.attack_power = @ + 2,
               !.defense = @ + 1,
               !.experience_to_next_level = (@ * 12) \div 10]

\* Player.gain_experience as one call: the player when it returns.
RECURSIVE while_level_up(_)
while_level_up(pl) ==
    IF reaches_next_level(pl) THEN while_level_up(level_up(pl)) ELSE pl

gain_experience(pl, amount) ==
    while_level_up([pl EXCEPT !.experience = @ + amount])

InWhile == last[1] = "gain_experience" /\ last[3] = "while"
Returned == last[1] = "gain_experience" /\ last[3] = "returned"

\* Player(100, 100, settings), hurt or not.
InitLevel ==
    /\ \E h \in StartHealths : player = [NewPlayer(100, 100) EXCEPT !.health = h]
    /\ target = <<>>
    /\ current_state = "game"
    /\ reset_threads = {}
    /\ quests = <<>>
    /\ last_quest_level = 0
    /\ last = <<"init">>
    /\ NoIndex /\ qres = NoQuery /\ NoGame /\ NoWorld

\* self.player.gain_experience(amount): self.experience += amount
GainExperience(amount) ==
    /\ ~InWhile
    /\ player.level < MaxLevel
    /\ player' = [player EXCEPT !.experience = @ + amount]
    /\ last' = <<"gain_experience", amount, "while", player>>
    /\ NotPlayer

\* while self.experience >= self.experience_to_next_level: self.level_up()
WhileLevelUp ==
    /\ InWhile
    /\ reaches_next_level(player)
    /\ player' = level_up(player)
    /\ UNCHANGED last
    /\ NotPlayer

\* The loop test fails and gain_experience returns.
ReturnFromGain ==
    /\ InWhile
    /\ ~reaches_next_level(player)
    /\ last' = [last EXCEPT ![3] = "returned"]
    /\ UNCHANGED player
    /\ NotPlayer

NextLevel ==
    \/ \E amount \in Amounts : GainExperience(amount)
    \/ WhileLevelUp
    \/ ReturnFromGain

\* The thread that called gain_experience keeps running: an iteration that
\* can be taken is taken, and a return that can happen happens.
SpecLevel ==
    /\ InitLevel
    /\ [][NextLevel]_vars
    /\ WF_vars(WhileLevelUp)
    /\ WF_vars(ReturnFromGain)

----------------------------------------------------------------------------
(* Claims about levelling, checked under SpecLevel.                         *)

\* C23: gain_experience(n) with n >= 0 always returns, and then
\* 0 <= experience < experience_to_next_level; each level gained adds 1 to
\* level, 10 to max_health, 2 to attack_power and 1 to defense, sets health
\* to max_health and multiplies the requirement by 1.2, truncated; the call
\* as a whole is the loop run to its end; and gain_experience(100) on a
\* fresh player yields exactly level 2.
C23_GainExperienceTerminates ==
    /\ InWhile ~> Returned
    /\ [](Returned =>
            /\ 0 <= player.experience
            /\ player.experience < player.experience_to_next_level
            /\ player = gain_experience(last[4], last[2]))
    /\ [][player'.level # player.level =>
            /\ player'.level = player.level + 1
            /\ player'.max_health = player.max_health + 10
            /\ player'.health = player'.max_health
            /\ player'.attack_power = player.attack_power + 2
            /\ player'.defense = player.defense + 1
            /\ 10 * player'.experience_to_next_level
                  <= 12 * player.experience_to_next_level
            /\ 12 * player.experience_to_next_level
                  < 10 * (player'.experience_to_next_level + 1)]_vars
    /\ [](( /\ Returned /\ last[2] = 100
            /\ last[4].level = 1 /\ last[4].experience = 0) =>
               /\ player.level = 2
               /\ player.experience = 0
               /\ player.experience_to_next_level = 120)

\* C23 witness: a call that gained three levels at once has returned, the
\* player having been hurt before.
C23_Witness ==
    /\ Returned
    /\ player.level = last[4].level + 3
    /\ last[4].health < last[4].max_health
    /\ player.health = player.max_health

----------------------------------------------------------------------------
(* Player.attack, with Entity.take_damage, get_center and distance_to.      *)
(*                                                                          *)
(* Positions are integers and times are tenths of a second.  distance_to    *)
(* is a square root compared with 50; the squares are compared here, which  *)
(* is the same for integer coordinates.                                     *)

\* Entity.__init__ and Enemy.__init__: the fields of Enemy(x, y, settings).
\* The collision rectangle is made in Entity.__init__, before Enemy.__init__
\* sets width and height to 48.
NewEnemy48(x, y) ==
    [x |-> x, y |-> y, width |-> 48, height |-> 48,
     collision_rect |-> <<x, y, TILE_SIZE, TILE_SIZE>>,
     max_health |-> 100, health |-> 100, attack_power |-> 10, defense |-> 5,
     alive |-> TRUE]

Max(a, b) == IF a >= b THEN a ELSE b

\* Entity.get_center
get_center(e) == <<e.x + e.width \div 2, e.y + e.height \div 2>>

\* Entity.distance_to, squared.
distance_to_squared(a, b) ==
    LET center1 == get_center(a)
        center2 == get_center(b)
    IN  (center1[1] - center2[1]) * (center1[1] - center2[1])
          + (center1[2] - center2[2]) * (center1[2] - center2[2])

\* Entity.take_damage: the entity afterwards, and whether it died.
take_damage(e, damage) ==
    LET actual_damage == Max(1, damage - e.defense)
        health == e.health - actual_damage
    IN  IF health <= 0
        THEN [entity |-> [e EXCEPT !.health = 0, !.alive = FALSE], result |-> TRUE]
        ELSE [entity |-> [e EXCEPT !.health = health], result |-> FALSE]

\* Player.attack: the player and the target afterwards, and the result.
attack(pl, tg) ==
    IF pl.attack_cooldown > 0
    THEN [player |-> pl, target |-> tg, result |-> FALSE]
    ELSE IF distance_to_squared(pl, tg) > pl.attack_range * pl.attack_range
    THEN [player |-> pl, target |-> tg, result |-> FALSE]
    ELSE LET damage == pl.attack_power
                         + (IF pl.equipped_weapon # None
                            THEN attack_bonus(pl.equipped_weapon) ELSE 0)
         IN  [player |-> [pl EXCEPT !.attack_cooldown = 5],
              target |-> take_damage(tg, damage).entity,
              result |-> TRUE]

\* Where the enemy is constructed: the test's (150, 100), nearer, on the
\* player and far away.
TargetPoints == { <<150, 100>>, <<130, 100>>, <<100, 100>>, <<300, 100>> }

\* The weapon in the player's hand.
Weapons == {None, "sword", "axe"}

\* The frame times of Player.update, in tenths of a second.
FrameTimes == {2, 5}

\* The variables a fight leaves alone.
NotFight ==
    /\ UNCHANGED <<current_state, reset_threads, quests, last_quest_level>>
    /\ UNCHANGED indexVars
    /\ UNCHANGED gameVars
    /\ UNCHANGED <<generators, items, tres>>

\* Player(100, 100, settings) with a weapon equipped or not, and
\* Enemy(x, 100, settings), as the tests construct them.
InitCombat ==
    /\ \E w \in Weapons :
          player = [NewPlayer(100, 100) EXCEPT !.equipped_weapon = w]
    /\ \E p \in TargetPoints : target = NewEnemy48(p[1], p[2])
    /\ current_state = "game"
    /\ reset_threads = {}
    /\ quests = <<>>
    /\ last_quest_level = 0
    /\ last = <<"init">>
    /\ NoIndex /\ qres = NoQuery /\ NoGame /\ NoWorld

\* self.player.attack(enemy)
Attack ==
    LET r == attack(player, target)
    IN  /\ player' = r.player
        /\ target' = r.target
        /\ last' = <<"attack", r.result>>
        /\ NotFight

\* Player.update: if self.attack_cooldown > 0: self.attack_cooldown -= dt
PlayerUpdate(dt) ==
    /\ player.attack_cooldown > 0
    /\ player' = [player EXCEPT !.attack_cooldown = @ - dt]
    /\ last' = <<"update", dt>>
    /\ UNCHANGED target
    /\ NotFight

NextCombat ==
    \/ Attack
    \/ \E dt \in FrameTimes : PlayerUpdate(dt)

SpecCombat == InitCombat /\ [][NextCombat]_vars

----------------------------------------------------------------------------
(* Claims about Player.attack, checked under SpecCombat.                    *)

\* The squared distance between the positions (x, y) of two entities.
PositionDistanceSquared(a, b) ==
    (a.x - b.x) * (a.x - b.x) + (a.y - b.y) * (a.y - b.y)

\* The damage a hit of the player does to the target.
StatedDamage ==
    Max(1, player.attack_power
             + (IF player.equipped_weapon # None
                THEN attack_bonus(player.equipped_weapon) ELSE 0)
             - target.defense)

\* C24: Player.attack(target) with attack_cooldown <= 0 against a target
\* whose position is within attack_range (50) of the player's position, as
\* the test's enemy at (150, 100) is of the player at (100, 100), returns
\* True and strictly lowers the target's health.
C24_AttackInRangeHits ==
    [][(/\ last'[1] = "attack"
        /\ player.attack_cooldown <= 0
        /\ target.health > 0
        /\ PositionDistanceSquared(player, target)
              <= player.attack_range * player.attack_range)
       => (last'[2] = TRUE /\ target'.health < target.health)]_vars

\* C24, the part about the damage: an attack that returns True takes
\* max(1, attack_power + weapon bonus - defense) from the target's health,
\* but not below 0, and alive becomes False exactly when health reaches 0.
C24_DamageWhenHit ==
    /\ [][(last'[1] = "attack" /\ last'[2] = TRUE) =>
            /\ target'.health = Max(0, target.health - StatedDamage)
            /\ player'.attack_cooldown = 5]_vars
    /\ [](target.health >= 0 /\ (target.alive <=> target.health > 0))

----------------------------------------------------------------------------
(* Entity.move, Entity.is_colliding_with and the assignments to x and y     *)
(* made outside Entity: the integration test, GameState._use_dash and       *)
(* GameState._load_game.                                                    *)
(*                                                                          *)
(* A collision rectangle is <<x, y, width, height>>.  The dash goes along   *)
(* an axis: facing_angle is a multiple of a right angle here.               *)

\* pygame.Rect.colliderect: the rectangles overlap; touching edges do not.
colliderect(a, b) ==
    /\ a[1] < b[1] + b[3] /\ b[1] < a[1] + a[3]
    /\ a[2] < b[2] + b[4] /\ b[2] < a[2] + a[4]

\* Entity.is_colliding_with
is_colliding_with(a, b) == colliderect(a.collision_rect, b.collision_rect)

\* Entity.move
move(e, dx, dy) ==
    [e EXCEPT !.x = @ + dx, !.y = @ + dy,
              !.collision_rect = <<e.x + dx, e.y + dy, @[3], @[4]>>]

\* entity.x = x; entity.y = y
assign_position(e, x, y) == [e EXCEPT !.x = x, !.y = y]

\* The steps of Entity.move in a frame.
Steps == { <<30, 30>>, <<-30, -30>> }

\* math.cos(facing_angle) * dash_distance, math.sin(facing_angle) * dash_distance
Dashes == { <<100, 0>>, <<-100, 0>> }

\* The positions the test assigns to the enemy, and the positions in a save.
AssignedPoints == { <<130, 130>>, <<200, 200>> }
SavedPoints == { <<100, 100>>, <<170, 170>> }

\* The part of the world the entities stay in.
InArena(e) == /\ 100 <= e.x /\ e.x <= 230
              /\ 100 <= e.y /\ e.y <= 230

\* Player(100, 100, settings) and Enemy(200, 200, settings), as the
\* integration test constructs them.
InitCollide ==
    /\ player = NewPlayer(100, 100)
    /\ target = NewEnemy48(200, 200)
    /\ current_state = "game"
    /\ reset_threads = {}
    /\ quests = <<>>
    /\ last_quest_level = 0
    /\ last = <<"init">>
    /\ NoIndex /\ qres = NoQuery /\ NoGame /\ NoWorld

\* Player.update: self.move(dx, dy)
MovePlayer(d) ==
    /\ player' = move(player, d[1], d[2])
    /\ InArena(player')
    /\ last' = <<"move", "player">>
    /\ UNCHANGED target
    /\ NotFight

\* Enemy.update: self.move(move_x, move_y)
MoveEnemy(d) ==
    /\ target' = move(target, d[1], d[2])
    /\ InArena(target')
    /\ last' = <<"move", "enemy">>
    /\ UNCHANGED player
    /\ NotFight

\* self.enemy.x = ...; self.enemy.y = ...
AssignEnemyPosition(p) ==
    /\ target' = assign_position(target, p[1], p[2])
    /\ last' = <<"assign", "enemy">>
    /\ UNCHANGED player
    /\ NotFight

\* GameState._use_dash with the dash off cooldown.
UseDash(d) ==
    /\ player' = assign_position(player, player.x + d[1], player.y + d[2])
    /\ InArena(player')
    /\ last' = <<"_use_dash">>
    /\ UNCHANGED target
    /\ NotFight

\* GameState._load_game: the player's x and y are taken from the save.
LoadGame(p) ==
    /\ player' = assign_position(player, p[1], p[2])
    /\ last' = <<"_load_game">>
    /\ UNCHANGED target
    /\ NotFight

\* self.player.is_colliding_with(self.enemy)
IsCollidingWith ==
    /\ last' = <<"is_colliding_with", is_colliding_with(player, target)>>
    /\ UNCHANGED <<player, target>>
    /\ NotFight

NextCollide ==
    \/ \E d \in Steps : MovePlayer(d)
    \/ \E d \in Steps : MoveEnemy(d)
    \/ \E p \in AssignedPoints : AssignEnemyPosition(p)
    \/ \E d \in Dashes : UseDash(d)
    \/ \E p \in SavedPoints : LoadGame(p)
    \/ IsCollidingWith

SpecCollide == InitCollide /\ [][NextCollide]_vars

----------------------------------------------------------------------------
(* Claims about collisions, checked under SpecCollide.                      *)

\* The entity's collision rectangle is located at its position.
RectAtPosition(e) ==
    e.collision_rect[1] = e.x /\ e.collision_rect[2] = e.y

\* The entity's box at its current position.
BoxOf(e) == <<e.x, e.y, e.collision_rect[3], e.collision_rect[4]>>

\* C25: after any change of an entity's x, y (Entity.move, direct
\* assignment, the dash, loading a save) its collision rectangle is located
\* at (x, y), so that is_colliding_with reports two entities whose boxes
\* overlap at their current positions as colliding.
C25_CollisionFromCurrentPositions ==
    /\ RectAtPosition(player) /\ RectAtPosition(target)
    /\ last[1] = "is_colliding_with" =>
          (colliderect(BoxOf(player), BoxOf(target)) => last[2] = TRUE)

----------------------------------------------------------------------------
(* RenderOptimizer on its own, used by a caller that moves its entities    *)
(* and then calls update_entity_position, the method GameState never       *)
(* calls.  reported[e] is the position e had when the optimizer was last   *)
(* told about it.                                                           *)

\* The entity objects of the caller and the positions they take: (10, 10)
\* and (10, 15) share a cell of size 64, (100, 100) is in another one.
OptimizerEntities == {"A", "B"}
OptimizerPoints == { <<10, 10>>, <<10, 15>>, <<100, 100>> }

\* RenderOptimizer.update_entity_position: remove_entity and add_entity are
\* both given the entity's own x, y.
optimizer_update_entity_position(g, cs, ps, e) ==
    add_entity(remove_entity(g, cs, e, ps[e]), cs, e, ps[e])

\* RenderOptimizer(settings): an empty SpatialHash of the default cell size.
InitOptimizer ==
    /\ cell_size = DefaultCellSize
    /\ grid = EmptyGrid
    /\ pos = [e \in OptimizerEntities |-> <<10, 10>>]
    /\ reported = [e \in OptimizerEntities |-> NoPos]
    /\ visible_entities = {}
    /\ last_camera_pos = <<0, 0>>
    /\ enemies = <<>>
    /\ alive = [e \in {} |-> TRUE]
    /\ created = 0
    /\ proto = "kept"
    /\ readds = 0
    /\ stale_moves = 0
    /\ last = <<"init">>
    /\ qres = NoQuery
    /\ NoWorld
    /\ NoRpg

\* The variables the caller of the optimizer leaves alone.
NotOptimizer ==
    /\ UNCHANGED <<cell_size, last_camera_pos, enemies, alive, created>>
    /\ UNCHANGED <<proto, readds, stale_moves, qres>>
    /\ UNCHANGED worldVars
    /\ UNCHANGED rpgVars

\* render_optimizer.add_entity(entity), for an entity it does not hold
OptimizerAddEntity(e) ==
    /\ reported[e] = NoPos
    /\ grid' = optimizer_add_entity(grid, cell_size, pos, e)
    /\ reported' = [reported EXCEPT ![e] = pos[e]]
    /\ last' = <<"add_entity", e>>
    /\ UNCHANGED <<pos, visible_entities>>
    /\ NotOptimizer

\* entity.move(dx, dy): the entity's x, y change
MoveEntity(e, p) ==
    /\ pos[e] # p
    /\ pos' = [pos EXCEPT ![e] = p]
    /\ last' = <<"move", e>>
    /\ UNCHANGED <<grid, reported, visible_entities>>
    /\ NotOptimizer

\* render_optimizer.update_entity_position(entity)
OptimizerUpdateEntityPosition(e) ==
    /\ reported[e] # NoPos
    /\ grid' = optimizer_update_entity_position(grid, cell_size, pos, e)
    /\ reported' = [reported EXCEPT ![e] = pos[e]]
    /\ last' = <<"update_entity_position", e>>
    /\ UNCHANGED <<pos, visible_entities>>
    /\ NotOptimizer

\* render_optimizer.remove_entity(entity), for an entity told where it is
OptimizerRemoveEntity(e) ==
    /\ reported[e] = pos[e]
    /\ LET r == optimizer_remove_entity(grid, visible_entities, cell_size, pos, e)
       IN  /\ grid' = r.grid
           /\ visible_entities' = r.visible_entities
    /\ reported' = [reported EXCEPT ![e] = NoPos]
    /\ last' = <<"remove_entity", e>>
    /\ UNCHANGED pos
    /\ NotOptimizer

\* render_optimizer.update_visible_entities(camera_x, camera_y)
OptimizerUpdateVisible(c) ==
    LET r == update_visible_entities(visible_entities, last_camera_pos, grid,
                                     cell_size, pos, c[1], c[2])
    IN  /\ visible_entities' = r.visible_entities
        /\ last_camera_pos' = r.last_camera_pos
        /\ last' = <<"update_visible_entities", c[1], c[2], r.queried>>
        /\ UNCHANGED <<cell_size, grid, pos, reported, enemies, alive, created>>
        /\ UNCHANGED <<proto, readds, stale_moves, qres>>
        /\ UNCHANGED worldVars
        /\ UNCHANGED rpgVars

NextOptimizer ==
    \/ \E e \in OptimizerEntities : OptimizerAddEntity(e)
    \/ \E e \in OptimizerEntities : \E p \in OptimizerPoints : MoveEntity(e, p)
    \/ \E e \in OptimizerEntities : OptimizerUpdateEntityPosition(e)
    \/ \E e \in OptimizerEntities : OptimizerRemoveEntity(e)
    \/ \E c \in { <<0, 0>>, <<100, 100>> } : OptimizerUpdateVisible(c)

SpecOptimizer == InitOptimizer /\ [][NextOptimizer]_vars

----------------------------------------------------------------------------
(* Claims about RenderOptimizer.update_entity_position, checked under      *)
(* SpecOptimizer.                                                           *)

\* C27: update_entity_position(entity), called after the entity's x, y
\* have changed, for an entity that was in the one cell of its position
\* before the move, leaves the entity in exactly one cell, the cell of its
\* current position.
C27_UpdateLeavesOneCell ==
    [][(/\ last'[1] = "update_entity_position"
        /\ CellsOf(grid, last'[2]) = {get_cell_key(cell_size, reported[last'[2]])})
       => CellsOf(grid', last'[2]) = {get_cell_key(cell_size, pos[last'[2]])}]_vars

----------------------------------------------------------------------------
(* GameEngine.change_state with MenuState, GameState and PauseState.        *)
(*                                                                          *)
(* change_state sets current_state and calls enter() of the new state; it   *)
(* never calls exit().  GameState.enter calls _spawn_enemy five times,      *)
(* _spawn_elite_enemy twice and, with probability 0.3, _spawn_boss; each    *)
(* spawn is dropped when its random position is not walkable.  So one       *)
(* enter() constructs between 0 and 8 enemies, each appended to the list    *)
(* and added to the RenderOptimizer.  The enemies of one enter() are put    *)
(* at one of the spawn positions here.  While the engine is in the menu or  *)
(* paused, GameState is not updated.                                        *)

\* The entity objects: the player and the enemies in the order constructed.
PlayerEntity == <<"player", 0>>
EnemyEntity(i) == <<"enemy", i>>

\* for _ in range(5): self._spawn_enemy()
enter_enemies == 5
\* for _ in range(2): self._spawn_elite_enemy()
enter_elites == 2
\* How many of the spawns of one enter() find a walkable position; the
\* one more is _spawn_boss, called if random.random() < 0.3.
EnterSpawns == 0..(enter_enemies + enter_elites + 1)

\* How many times GameState.enter may run.
MaxEnters == 3

\* The positions enemies are spawned at: two cells.
SpawnPoints == { <<1200, 1000>>, <<1000, 1400>> }

\* k spawns at a walkable position p, one after the other: Enemy(...),
\* self.enemies.append(enemy), self.render_optimizer.add_entity(enemy).
RECURSIVE spawn_walkable(_, _, _, _, _, _, _)
spawn_walkable(g, cs, ps, ens, cr, k, p) ==
    IF k = 0
    THEN [grid |-> g, pos |-> ps, enemies |-> ens, created |-> cr]
    ELSE LET e   == EnemyEntity(cr + 1)
             ps1 == (e :> p) @@ ps
         IN  spawn_walkable(optimizer_add_entity(g, cs, ps1, e), cs, ps1,
                            Append(ens, e), cr + 1, k - 1, p)

\* GameState.enter, of whose spawns k find a walkable position.
game_state_enter(g, cs, ps, ens, cr, k, p) ==
    spawn_walkable(g, cs, ps, ens, cr, k, p)

\* GameEngine.__init__: the three states are constructed, GameState with
\* the player in the RenderOptimizer and no enemy, and the menu is current.
InitPause ==
    /\ current_state = "menu"
    /\ cell_size = DefaultCellSize
    /\ pos = [e \in {PlayerEntity} |-> PlayerStart]
    /\ grid = optimizer_add_entity(EmptyGrid, DefaultCellSize,
                                   [e \in {PlayerEntity} |-> PlayerStart],
                                   PlayerEntity)
    /\ enemies = <<>>
    /\ alive = [e \in {} |-> TRUE]
    /\ created = 0
    /\ visible_entities = {}
    /\ last_camera_pos = <<0, 0>>
    /\ reported = NoneReported
    /\ proto = "kept"
    /\ readds = 0
    /\ stale_moves = 0
    /\ last = <<"init", 0>>
    /\ qres = NoQuery
    /\ NoWorld
    /\ player = <<>>
    /\ target = <<>>
    /\ reset_threads = {}
    /\ quests = <<>>
    /\ last_quest_level = 0

\* The variables a change of state leaves alone.
NotEngine ==
    /\ UNCHANGED <<cell_size, visible_entities, last_camera_pos>>
    /\ UNCHANGED callerVars
    /\ UNCHANGED worldVars
    /\ UNCHANGED <<player, target, reset_threads, quests, last_quest_level>>

\* change_state('game'): current_state is set and GameState.enter runs.
ChangeStateGame(k, p) ==
    LET r == game_state_enter(grid, cell_size, pos, enemies, created, k, p)
    IN  /\ last[2] < MaxEnters
        /\ current_state' = "game"
        /\ grid' = r.grid
        /\ pos' = r.pos
        /\ enemies' = r.enemies
        /\ created' = r.created
        /\ alive' = [e \in Range(r.enemies) |-> TRUE]
        /\ last' = <<"change_state", last[2] + 1>>
        /\ NotEngine

\* MenuState._select_option, Campaign or Open World: change_state('game')
StartGame(k, p) ==
    /\ current_state = "menu"
    /\ ChangeStateGame(k, p)

\* GameState.handle_event, K_ESCAPE: change_state('pause'); PauseState.enter
\* resets the selected option.
PauseGame ==
    /\ current_state = "game"
    /\ current_state' = "pause"
    /\ last' = <<"change_state", last[2]>>
    /\ UNCHANGED <<grid, pos, enemies, created, alive>>
    /\ NotEngine

\* PauseState.handle_event, K_ESCAPE, or _select_option, Resume:
\* change_state('game')
ResumeGame(k, p) ==
    /\ current_state = "pause"
    /\ ChangeStateGame(k, p)

\* PauseState._select_option, Main Menu: change_state('menu')
MainMenu ==
    /\ current_state = "pause"
    /\ current_state' = "menu"
    /\ last' = <<"change_state", last[2]>>
    /\ UNCHANGED <<grid, pos, enemies, created, alive>>
    /\ NotEngine

NextPause ==
    \/ \E k \in EnterSpawns :
          \E p \in SpawnPoints : StartGame(k, p)
    \/ PauseGame
    \/ \E k \in EnterSpawns :
          \E p \in SpawnPoints : ResumeGame(k, p)
    \/ MainMenu

SpecPause == InitPause /\ [][NextPause]_vars

----------------------------------------------------------------------------
(* Claims about pausing, checked under SpecPause.                           *)

\* C28: pausing and resuming (game -> pause -> game through
\* GameEngine.change_state) leaves the enemies list and the entities in the
\* spatial hash as they were, in every pause/resume cycle.
C28_ResumeKeepsWorld ==
    [][(\/ current_state = "game" /\ current_state' = "pause"
        \/ current_state = "pause" /\ current_state' = "game")
       => (enemies' = enemies /\ InGrid(grid') = InGrid(grid))]_vars

----------------------------------------------------------------------------
(* The temporary buffs of GameState: _use_shield and _use_rage, each with   *)
(* a daemon thread that sleeps and then writes the value it captured.       *)
(*                                                                          *)
(* A thread is a record in reset_threads: its kind, the value original it   *)
(* captured, and, as history, the value expected that the stat would have   *)
(* without the buff, given what happened since.  The thread's write may     *)
(* come at any time after the buff was started; the game loop's handlers    *)
(* (a level-up, a potion, a loaded save) run between the start and the      *)
(* write.  An ability is used again only after its thread has finished:     *)
(* its cooldown (10 s, 30 s) is longer than the thread's sleep (5 s, 10 s). *)

\* The Strength Potion item object in the inventory at the start.
StrengthPotion == "strength_potion"

\* The player stats stored in the save slots.
SavedStats == { [attack_power |-> 15, defense |-> 8],
                [attack_power |-> 17, defense |-> 9] }

\* The experience gained at once in the game: a quest reward.
BuffAmounts == {100}

ThreadsOf(kind) == {t \in reset_threads : t.kind = kind}

\* Every running thread's expected value, after a permanent change of
\* defense by dd and of attack_power by da.
expect_more(threads, dd, da) ==
    { [t EXCEPT !.expected = @ + (IF t.kind = "shield" THEN dd ELSE da)] :
         t \in threads }

\* Every running thread's expected value, after the stats were overwritten.
expect_loaded(threads, save) ==
    { [t EXCEPT !.expected = IF t.kind = "shield" THEN save.defense
                             ELSE save.attack_power] : t \in threads }

\* Player(1000, 1000, settings) with a Strength Potion picked up.
InitBuff ==
    /\ player = [NewPlayer(1000, 1000) EXCEPT
                    !.inventory = <<StrengthPotion>>]
    /\ reset_threads = {}
    /\ target = <<>>
    /\ current_state = "game"
    /\ quests = <<>>
    /\ last_quest_level = 0
    /\ last = <<"init">>
    /\ NoIndex /\ qres = NoQuery /\ NoGame /\ NoWorld

\* The variables the buffs leave alone.
NotBuff ==
    /\ UNCHANGED <<target, current_state, quests, last_quest_level>>
    /\ UNCHANGED indexVars
    /\ UNCHANGED gameVars
    /\ UNCHANGED <<generators, items, tres>>

\* GameState._use_shield with the shield off cooldown: defense is doubled
\* and the thread reset_defense is started with the value before.
UseShield ==
    /\ ThreadsOf("shield") = {}
    /\ player' = [player EXCEPT !.defense = @ * 2]
    /\ reset_threads' = reset_threads \cup
          {[kind |-> "shield", original |-> player.defense,
            expected |-> player.defense]}
    /\ last' = <<"_use_shield">>
    /\ NotBuff

\* GameState._use_rage with rage off cooldown: attack_power is doubled and
\* the thread reset_attack is started with the value before.
UseRage ==
    /\ ThreadsOf("rage") = {}
    /\ player' = [player EXCEPT !.attack_power = @ * 2]
    /\ reset_threads' = reset_threads \cup
          {[kind |-> "rage", original |-> player.attack_power,
            expected |-> player.attack_power]}
    /\ last' = <<"_use_rage">>
    /\ NotBuff

\* reset_defense after time.sleep(5): self.player.defense = original_defense
ResetDefense ==
    \E t \in ThreadsOf("shield") :
        /\ player' = [player EXCEPT !.defense = t.original]
        /\ reset_threads' = reset_threads \ {t}
        /\ last' = <<"reset_defense", t.expected>>
        /\ NotBuff

\* reset_attack after time.sleep(10): self.player.attack_power = original_attack
ResetAttack ==
    \E t \in ThreadsOf("rage") :
        /\ player' = [player EXCEPT !.attack_power = t.original]
        /\ reset_threads' = reset_threads \ {t}
        /\ last' = <<"reset_attack", t.expected>>
        /\ NotBuff

\* self.player.gain_experience(amount) in the game loop; every level gained
\* adds 1 to defense and 2 to attack_power.
BuffGainExperience(amount) ==
    /\ player.level < MaxLevel
    /\ player' = gain_experience(player, amount)
    /\ reset_threads' = expect_more(reset_threads,
                                    player'.defense - player.defense,
                                    player'.attack_power - player.attack_power)
    /\ last' = <<"gain_experience", amount>>
    /\ NotBuff

\* GameState._use_strength_potion with a potion in the inventory
UseStrengthPotion ==
    /\ InInventory(player, StrengthPotion)
    /\ player' = [player EXCEPT !.inventory = list_remove(@, StrengthPotion),
                                !.attack_power = @ + 10]
    /\ reset_threads' = expect_more(reset_threads, 0, 10)
    /\ last' = <<"_use_strength_potion">>
    /\ NotBuff

\* GameState._load_game: attack_power and defense are taken from the save.
LoadStats(save) ==
    /\ player' = [player EXCEPT !.attack_power = save.attack_power,
                                !.defense = save.defense]
    /\ reset_threads' = expect_loaded(reset_threads, save)
    /\ last' = <<"_load_game">>
    /\ NotBuff

NextBuff ==
    \/ UseShield
    \/ UseRage
    \/ ResetDefense
    \/ ResetAttack
    \/ \E amount \in BuffAmounts : BuffGainExperience(amount)
    \/ UseStrengthPotion
    \/ \E save \in SavedStats : LoadStats(save)

SpecBuff == InitBuff /\ [][NextBuff]_vars

----------------------------------------------------------------------------
(* Claims about the buffs, checked under SpecBuff.                          *)

\* C29: when a buff expires, defense (shield) or attack_power (rage) is the
\* value just before the buff with every permanent change made while the
\* buff was active: the levels gained, the potions used, the save loaded.
C29_ExpiryKeepsPermanentChanges ==
    /\ last[1] = "reset_defense" => player.defense = last[2]
    /\ last[1] = "reset_attack" => player.attack_power = last[2]

----------------------------------------------------------------------------
(* QuestSystem and Quest (src/game/quests/quest_system.py), with            *)
(* GameState._update_quest_progress, which tells the quest system about     *)
(* the player's level.                                                      *)
(*                                                                          *)
(* quests holds the Quest objects by quest_id and the lists active_quests   *)
(* and completed_quests.  last_quest_level is the level passed to the last  *)
(* on_level_up call; the levels passed increase, so it is also the highest. *)

\* QuestSystem._initialize_quests: a kill quest and the two reach_level
\* quests, with their targets and experience rewards.
QuestIds == {"quest_1", "quest_4", "quest_8"}

NewQuest(quest_type, target_count, reward_exp) ==
    [quest_type |-> quest_type, target_count |-> target_count,
     current_count |-> 0, reward_exp |-> reward_exp,
     completed |-> FALSE, accepted |-> FALSE]

initialize_quests ==
    [q \in QuestIds |->
        CASE q = "quest_1" -> NewQuest("kill", 5, 50)
          [] q = "quest_4" -> NewQuest("reach_level", 5, 150)
          [] q = "quest_8" -> NewQuest("reach_level", 10, 500)]

\* No level-up happens at this level or above.
MaxQuestLevel == 6

\* Quest.update_progress: the quest afterwards.
update_progress(quest, count) ==
    IF ~quest.completed /\ quest.accepted
    THEN [quest EXCEPT !.current_count = @ + count,
                       !.completed = (quest.current_count + count >= quest.target_count)]
    ELSE quest

\* QuestSystem.update_quest_progress: update_progress of every active quest
\* of the type.
update_quest_progress(qs, quest_type, count) ==
    [qs EXCEPT !.objects =
        [q \in QuestIds |->
            IF q \in Range(qs.active_quests) /\ qs.objects[q].quest_type = quest_type
            THEN update_progress(qs.objects[q], count)
            ELSE qs.objects[q]]]

\* QuestSystem.on_level_up
on_level_up(qs, new_level) == update_quest_progress(qs, "reach_level", new_level)

\* QuestSystem.on_enemy_killed
on_enemy_killed(qs) == update_quest_progress(qs, "kill", 1)

\* QuestSystem.accept_quest
accept_quest(qs, quest_id) ==
    IF ~qs.objects[quest_id].accepted
    THEN [quest_system |->
             [qs EXCEPT !.objects[quest_id].accepted = TRUE,
                        !.active_quests = Append(@, quest_id)],
          result |-> TRUE]
    ELSE [quest_system |-> qs, result |-> FALSE]

\* QuestSystem.complete_quest: the quest system and the player afterwards.
complete_quest(qs, quest_id, pl) ==
    IF quest_id \in Range(qs.active_quests) /\ qs.objects[quest_id].completed
    THEN [quest_system |->
             [qs EXCEPT !.active_quests = list_remove(@, quest_id),
                        !.completed_quests = Append(@, quest_id)],
          player |-> gain_experience(pl, qs.objects[quest_id].reward_exp),
          result |-> TRUE]
    ELSE [quest_system |-> qs, player |-> pl, result |-> FALSE]

\* GameState.__init__: the player and QuestSystem(settings); GameState has
\* no attribute _last_quest_level yet, which getattr reads as 0.
InitQuest ==
    /\ player = NewPlayer(1000, 1000)
    /\ quests = [objects |-> initialize_quests, active_quests |-> <<>>,
                 completed_quests |-> <<>>]
    /\ last_quest_level = 0
    /\ target = <<>>
    /\ current_state = "game"
    /\ reset_threads = {}
    /\ last = <<"init">>
    /\ NoIndex /\ qres = NoQuery /\ NoGame /\ NoWorld

\* The variables the quests leave alone.
NotQuest ==
    /\ UNCHANGED <<target, current_state, reset_threads>>
    /\ UNCHANGED indexVars
    /\ UNCHANGED gameVars
    /\ UNCHANGED <<generators, items, tres>>

\* quest_system.accept_quest(quest_id)
AcceptQuest(quest_id) ==
    LET r == accept_quest(quests, quest_id)
    IN  /\ quests' = r.quest_system
        /\ last' = <<"accept_quest", quest_id, r.result>>
        /\ UNCHANGED <<player, last_quest_level>>
        /\ NotQuest

\* The player gains the experience missing to the next level.
QuestLevelUp ==
    /\ player.level < MaxQuestLevel
    /\ player' = gain_experience(player,
                     player.experience_to_next_level - player.experience)
    /\ last' = <<"gain_experience">>
    /\ UNCHANGED <<quests, last_quest_level>>
    /\ NotQuest

\* GameState._update_quest_progress, called in every update of the game.
UpdateQuestProgress ==
    /\ IF player.level > last_quest_level
       THEN /\ quests' = on_level_up(quests, player.level)
            /\ last_quest_level' = player.level
            /\ last' = <<"on_level_up", player.level>>
       ELSE /\ UNCHANGED <<quests, last_quest_level>>
            /\ last' = <<"_update_quest_progress">>
    /\ UNCHANGED player
    /\ NotQuest

\* quest_system.on_enemy_killed(enemy.enemy_type)
OnEnemyKilled ==
    /\ quests' = on_enemy_killed(quests)
    /\ last' = <<"on_enemy_killed">>
    /\ UNCHANGED <<player, last_quest_level>>
    /\ NotQuest

\* quest_system.complete_quest(quest_id, player)
CompleteQuest(quest_id) ==
    LET r == complete_quest(quests, quest_id, player)
    IN  /\ player.level < MaxQuestLevel
        /\ quests' = r.quest_system
        /\ player' = r.player
        /\ last' = <<"complete_quest", quest_id, r.result>>
        /\ UNCHANGED last_quest_level
        /\ NotQuest

NextQuest ==
    \/ \E quest_id \in QuestIds : AcceptQuest(quest_id)
    \/ QuestLevelUp
    \/ UpdateQuestProgress
    \/ OnEnemyKilled
    \/ \E quest_id \in QuestIds : CompleteQuest(quest_id)

SpecQuest == InitQuest /\ [][NextQuest]_vars

----------------------------------------------------------------------------
(* Claims about the reach_level quests, checked under SpecQuest.            *)

ReachLevelQuests == {q \in QuestIds : quests.objects[q].quest_type = "reach_level"}

\* C30: an accepted reach_level quest with target N is completed only when
\* on_level_up has been called with a level >= N; while the levels passed
\* are all below N it stays incomplete.
C30_CompletedOnlyAtTargetLevel ==
    \A q \in ReachLevelQuests :
        quests.objects[q].completed => last_quest_level >= quests.objects[q].target_count

\* C30, the part about completed quests: once a quest is completed its
\* progress and its completed flag never change again.
C30_CompletedIsFinal ==
    [][\A q \in QuestIds :
          quests.objects[q].completed =>
             /\ quests'.objects[q].completed
             /\ quests'.objects[q].current_count = quests.objects[q].current_count]_vars

====
